---- MODULE Spec2Model ----
(***************************************************************************)
(* OxI Search: the index store (db.rs), the search facade and the indexing *)
(* commands (lib.rs), and the walker / MFT flush policy (indexer.rs,       *)
(* mft_indexer.rs).                                                        *)
(*                                                                         *)
(* Strings are sequences of byte values (ASCII code points), so that the   *)
(* BINARY collation of ORDER BY name and the case folding of LIKE are the  *)
(* ones SQLite computes.  Option<T> is <<>> for None and <<v>> for Some(v).*)
(***************************************************************************)
EXTENDS Integers, Sequences, FiniteSets, TLC

(***************************************************************************)
(* Bounds of the model.                                                    *)
(***************************************************************************)
\* usize, u64 and i64 have the same width on the 64-bit targets; the model
\* keeps that relation at WordBits bits.
WordBits == 4
\* rows written to search_index in one behaviour (caps sqlite_sequence)
MaxWrites == 3
\* longest batch handed to Database::upsert_batch by the store-level actions
MaxBatch == 2

RECURSIVE Pow2(_)
Pow2(n) == IF n = 0 THEN 1 ELSE 2 * Pow2(n - 1)

WordMod == Pow2(WordBits)
I64_MAX == Pow2(WordBits - 1) - 1
USIZE == 0 .. (WordMod - 1)

\* `x as i64` for an unsigned word x: the two's complement reinterpretation
AsI64(x) == IF x > I64_MAX THEN x - WordMod ELSE x
\* `x as u64` / `x as usize` for a signed word x
AsU64(x) == IF x < 0 THEN x + WordMod ELSE x

None == << >>
Some(v) == << v >>
IsSome(o) == o # << >>
Unwrap(o) == o[1]

(***************************************************************************)
(* Byte strings.                                                           *)
(***************************************************************************)
\* the '%' of format!("%{}%", query)
PERCENT == 37

\* memcmp order of two byte strings (SQLite's BINARY collation)
RECURSIVE StrLE(_, _)
StrLE(a, b) ==
    IF a = << >> THEN TRUE
    ELSE IF b = << >> THEN FALSE
    ELSE IF Head(a) < Head(b) THEN TRUE
    ELSE IF Head(a) > Head(b) THEN FALSE
    ELSE StrLE(Tail(a), Tail(b))

\* str::contains: q occurs in s as a literal, case-sensitive substring
Contains(s, q) ==
    \E i \in 0 .. (Len(s) - Len(q)) : SubSeq(s, i + 1, i + Len(q)) = q

\* sqlite3UpperToLower: LIKE folds the 26 ASCII letters only
ToLower(c) == IF c >= 65 /\ c <= 90 THEN c + 32 ELSE c

\* patternCompare of SQLite's LIKE (no ESCAPE): % matches any run of
\* characters, _ matches exactly one, anything else matches itself up to
\* ASCII case.
RECURSIVE Like(_, _)
Like(pattern, s) ==
    IF pattern = << >> THEN s = << >>
    ELSE IF Head(pattern) = PERCENT
         THEN \E k \in 0 .. Len(s) : Like(Tail(pattern), SubSeq(s, k + 1, Len(s)))
    ELSE /\ s # << >>
         /\ \/ Head(pattern) = 95      \* '_'
            \/ ToLower(Head(pattern)) = ToLower(Head(s))
         /\ Like(Tail(pattern), Tail(s))

(***************************************************************************)
(* FileRecord and the rows of table search_index.                          *)
(***************************************************************************)
FileRecord(path, name, extension, file_size, is_dir, modified_time, last_indexed) ==
    [path |-> path, name |-> name, extension |-> extension,
     file_size |-> file_size, is_dir |-> is_dir,
     modified_time |-> modified_time, last_indexed |-> last_indexed]

\* a row of search_index: id INTEGER PRIMARY KEY AUTOINCREMENT plus the
\* seven bound columns
RowOf(id, f) ==
    [id |-> id, path |-> f.path, name |-> f.name, extension |-> f.extension,
     file_size |-> f.file_size, is_dir |-> f.is_dir,
     modified_time |-> f.modified_time, last_indexed |-> f.last_indexed]

\* the FileRecord a row carries
RecordOf(r) ==
    FileRecord(r.path, r.name, r.extension, r.file_size, r.is_dir,
               r.modified_time, r.last_indexed)

\* The database file: the rows of search_index and the AUTOINCREMENT
\* high-water mark SQLite keeps in sqlite_sequence.
EmptyDb == [rows |-> {}, seq |-> 0]

Ok(d) == [ok |-> TRUE, db |-> d]
Err(d) == [ok |-> FALSE, db |-> d]

\* INSERT without conflict resolution on a table without the UNIQUE
\* constraint: the prior row of the path stays.
InsertOrReplace_NoUnique(d, f) ==
    IF d.seq >= I64_MAX
    THEN Err(d)
    ELSE Ok([rows |-> d.rows \cup {RowOf(d.seq + 1, f)}, seq |-> d.seq + 1])

\* INSERT OR REPLACE INTO search_index (...) VALUES (...): the row that
\* holds the same path (UNIQUE) is deleted, the new row takes the next
\* AUTOINCREMENT id; SQLITE_FULL once the largest rowid has been used.
InsertOrReplace(d, f) ==
    IF d.seq >= I64_MAX
    THEN Err(d)
    ELSE Ok([rows |-> {r \in d.rows : r.path # f.path} \cup {RowOf(d.seq + 1, f)},
             seq |-> d.seq + 1])

\* Database::upsert_file; fault: the statement fails in the engine (I/O
\* error, disk full), which leaves the database as it was.
upsert_file(d, f, fault) ==
    IF fault THEN Err(d) ELSE InsertOrReplace(d, f)

\* the loop `for file in files { stmt.execute(...)? }` from row k on, inside
\* the open transaction; failAt is the row whose execute fails (0: none)
RECURSIVE ExecuteRows(_, _, _, _)
ExecuteRows(d, files, k, failAt) ==
    IF k > Len(files) THEN Ok(d)
    ELSE IF k = failAt THEN Err(d)
    ELSE LET r == InsertOrReplace(d, files[k])
         IN  IF r.ok THEN ExecuteRows(r.db, files, k + 1, failAt) ELSE r

\* the same loop in autocommit mode: what the rows before the failing one
\* wrote stays in the database
upsert_batch_NoTransaction(d, files, failAt) ==
    IF files = << >> THEN Ok(d)
    ELSE LET t == ExecuteRows(d, files, 1, failAt)
         IN  IF t.ok /\ failAt # Len(files) + 1 THEN Ok(t.db) ELSE Err(t.db)

\* the batch written into an emptied table (the index rebuilt from the
\* batch)
upsert_batch_Rebuild(d, files, failAt) ==
    IF files = << >> THEN Ok(d)
    ELSE LET t == ExecuteRows([rows |-> {}, seq |-> d.seq], files, 1, failAt)
         IN  IF t.ok /\ failAt # Len(files) + 1 THEN Ok(t.db) ELSE Err(d)

\* Database::upsert_batch.  failAt = 0: no fault; 1..Len(files): that row's
\* execute fails; Len(files)+1: BEGIN, prepare or COMMIT fails.  The
\* Transaction is dropped uncommitted on every error path, which rolls back.
upsert_batch(d, files, failAt) ==
    IF files = << >> THEN Ok(d)
    ELSE LET t == ExecuteRows(d, files, 1, failAt)
         IN  IF t.ok /\ failAt # Len(files) + 1 THEN Ok(t.db) ELSE Err(d)

\* Database::delete_file: DELETE FROM search_index WHERE path = ?1
delete_file(d, path) ==
    [rows |-> {r \in d.rows : r.path # path}, seq |-> d.seq]

\* Database::get_file_count: SELECT COUNT(*)
get_file_count(d) == Cardinality(d.rows)

(***************************************************************************)
(* Database::search_files.                                                 *)
(***************************************************************************)
\* the rows of a table in rowid order (the order a scan delivers them in)
RECURSIVE RowsById(_)
RowsById(rows) ==
    IF rows = {} THEN << >>
    ELSE LET r == CHOOSE x \in rows : \A y \in rows : x.id <= y.id
         IN  << r >> \o RowsById(rows \ {r})

\* WHERE name LIKE ?1 with ?1 = format!("%{}%", query)
NameMatches(r, query) == Like(<< PERCENT >> \o query \o << PERCENT >>, r.name)

\* the IN clause appended for an empty list as well: IN () holds for no row
ExtensionMatches_EmptyList(r, extensions) ==
    IF IsSome(extensions)
    THEN /\ IsSome(r.extension)
         /\ \E i \in 1 .. Len(Unwrap(extensions)) :
                Unwrap(extensions)[i] = Unwrap(r.extension)
    ELSE TRUE

\* AND extension IN (?, ...), appended when extensions is Some and non-empty;
\* a NULL extension is IN nothing
ExtensionMatches(r, extensions) ==
    IF IsSome(extensions) /\ Unwrap(extensions) # << >>
    THEN /\ IsSome(r.extension)
         /\ \E i \in 1 .. Len(Unwrap(extensions)) :
                Unwrap(extensions)[i] = Unwrap(r.extension)
    ELSE TRUE

\* AND file_size >= ? / AND file_size <= ?, appended when the bound is Some;
\* a comparison with a NULL file_size is not true
SizeMatches(r, min_size, max_size) ==
    /\ IsSome(min_size) => (IsSome(r.file_size) /\ Unwrap(r.file_size) >= Unwrap(min_size))
    /\ IsSome(max_size) => (IsSome(r.file_size) /\ Unwrap(r.file_size) <= Unwrap(max_size))

\* ORDER BY name ASC alone: the is_dir key dropped
OrderBefore_NameOnly(a, b) == a.name # b.name /\ StrLE(a.name, b.name)

\* ORDER BY is_dir DESC, name ASC: a sorts strictly before b
OrderBefore(a, b) ==
    \/ a.is_dir /\ ~b.is_dir
    \/ a.is_dir = b.is_dir /\ a.name # b.name /\ StrLE(a.name, b.name)

\* r put into an ordered list after the rows that do not sort after it
\* (rows that tie keep the order the scan delivered them in)
RECURSIVE InsertOrdered(_, _)
InsertOrdered(sorted, r) ==
    IF sorted = << >> THEN << r >>
    ELSE IF OrderBefore(r, Head(sorted)) THEN << r >> \o sorted
    ELSE << Head(sorted) >> \o InsertOrdered(Tail(sorted), r)

RECURSIVE OrderBy(_)
OrderBy(rows) ==
    IF rows = << >> THEN << >>
    ELSE InsertOrdered(OrderBy(SubSeq(rows, 1, Len(rows) - 1)), rows[Len(rows)])

\* LIMIT ? bound to `limit as i64` with no sign check: every row
LimitRows_Unbounded(rows, limit) == rows

\* LIMIT ? bound to `limit as i64`: a negative LIMIT is no limit in SQLite
LimitRows(rows, limit) ==
    LET n == AsI64(limit)
    IN  IF n < 0 \/ n >= Len(rows) THEN rows ELSE SubSeq(rows, 1, n)

\* the tuple (path, name, extension, file_size, is_dir, modified_time) read
\* from a result row
ResultTuple(r) ==
    [path |-> r.path, name |-> r.name, extension |-> r.extension,
     file_size |-> r.file_size, is_dir |-> r.is_dir,
     modified_time |-> r.modified_time]

\* Database::search_files(query, extensions, min_size, max_size, limit)
db_search_files(d, query, extensions, min_size, max_size, limit) ==
    LET Where(r) == /\ NameMatches(r, query)
                    /\ ExtensionMatches(r, extensions)
                    /\ SizeMatches(r, min_size, max_size)
        hits == LimitRows(OrderBy(SelectSeq(RowsById(d.rows), Where)), limit)
    IN  [i \in 1 .. Len(hits) |-> ResultTuple(hits[i])]

(***************************************************************************)
(* The search_files command (lib.rs).                                      *)
(***************************************************************************)
\* Option::map with `|s| s as i64` and with `|s| s as u64`
MapAsI64(o) == IF IsSome(o) THEN Some(AsI64(Unwrap(o))) ELSE None
MapAsU64(o) == IF IsSome(o) THEN Some(AsU64(Unwrap(o))) ELSE None

SearchFilters(extensions, min_size, max_size, min_date, max_date) ==
    [extensions |-> extensions, min_size |-> min_size, max_size |-> max_size,
     min_date |-> min_date, max_date |-> max_date]

\* the closure that maps a result tuple to types::SearchResult
SearchResult(t) ==
    [path |-> t.path, name |-> t.name, extension |-> t.extension,
     file_size |-> MapAsU64(t.file_size), is_dir |-> t.is_dir,
     modified_time |-> t.modified_time, score |-> 1]

SearchResults(query, results, total, page, limit) ==
    [query |-> query, results |-> results, total |-> total, page |-> page,
     limit |-> limit]

\* the arguments the command passes to Database::search_files
StoreMinSize(filters) == MapAsI64(filters.min_size)
StoreMaxSize(filters) == MapAsI64(filters.max_size)

\* the early return on an empty query left out
IsEmptyQuery_Never(query) == FALSE

\* query.is_empty()
IsEmptyQuery(query) == query = << >>

\* search_files with min_date / max_date compared with modified_time
search_files_DateApplied(d, query, filters, page, limit) ==
    IF IsEmptyQuery(query)
    THEN SearchResults(query, << >>, 0, page, limit)
    ELSE LET InDates(t) ==
                 /\ IsSome(filters.min_date) => t.modified_time >= Unwrap(filters.min_date)
                 /\ IsSome(filters.max_date) => t.modified_time <= Unwrap(filters.max_date)
             results == SelectSeq(db_search_files(d, query, filters.extensions,
                                                  StoreMinSize(filters),
                                                  StoreMaxSize(filters), limit),
                                  InDates)
         IN  SearchResults(query,
                           [i \in 1 .. Len(results) |-> SearchResult(results[i])],
                           Len(results), page, limit)

\* search_files(query, filters, page, limit) on the database d it locks
search_files(d, query, filters, page, limit) ==
    IF IsEmptyQuery(query)
    THEN SearchResults(query, << >>, 0, page, limit)
    ELSE LET results == db_search_files(d, query, filters.extensions,
                                        StoreMinSize(filters),
                                        StoreMaxSize(filters), limit)
         IN  SearchResults(query,
                           [i \in 1 .. Len(results) |-> SearchResult(results[i])],
                           Len(results), page, limit)

(***************************************************************************)
(* The records and requests the actions draw their inputs from.            *)
(***************************************************************************)
NameLower == << 97, 98 >>            \* "ab"
NameUpper == << 65, 66 >>            \* "AB"
NameOther == << 97, 120, 98 >>       \* "axb"
ExtT == << 46, 116 >>                \* ".t"

Names == {NameLower, NameUpper, NameOther}

\* "/" followed by the leaf name
PathOf(name) == << 47 >> \o name

Paths == {PathOf(n) : n \in Names}

\* a directory, a file with an extension, a file without one (of another
\* size and time)
DirRecord(name) == FileRecord(PathOf(name), name, None, None, TRUE, 3, 3)
FileWithExt(name) == FileRecord(PathOf(name), name, Some(ExtT), Some(1), FALSE, 1, 3)
FileNoExt(name) == FileRecord(PathOf(name), name, None, Some(2), FALSE, 2, 4)

\* a file whose 64-bit length has the top bit set: `size as i64` (the MFT
\* scan) stores it as a negative file_size
FileTopBit(name) ==
    FileRecord(PathOf(name), name, None, Some(AsI64(WordMod - 1)), FALSE, 2, 4)

Universe ==
    {DirRecord(n) : n \in Names} \cup {FileWithExt(n) : n \in Names}
        \cup {FileNoExt(NameLower), FileNoExt(NameUpper), FileTopBit(NameOther)}

\* the slices handed to upsert_batch: up to MaxBatch records
Batches == UNION {[1 .. n -> Universe] : n \in 0 .. MaxBatch}

\* queries: "", "ab", "a", "a_b", "%"
Queries == {<< >>, << 97, 98 >>, << 97 >>, << 97, 95, 98 >>, << 37 >>}

ExtensionFilters == {None, Some(<< >>), Some(<< ExtT >>)}

\* (min_size, max_size) as the u64 values of SearchFilters
SizeFilters ==
    {<< None, None >>, << Some(2), None >>, << None, Some(1) >>,
     << Some(1), Some(2) >>, << Some(WordMod - 1), None >>,
     << None, Some(WordMod - 1) >>}

\* (min_date, max_date)
DateFilters == {<< None, None >>, << Some(1), Some(2) >>}

Limits == {0, 1, 2, WordMod - 1}

\* the filter structs of the requests: each filter alone, and the extension
\* and size filters together with and without the date filters
FilterChoices ==
    {<< e, << None, None >>, << None, None >> >> : e \in ExtensionFilters}
        \cup {<< None, s, << None, None >> >> : s \in SizeFilters}
        \cup {<< Some(<< ExtT >>), << Some(1), Some(2) >>, t >> : t \in DateFilters}
        \cup {<< None, << None, None >>, t >> : t \in DateFilters}

Filters == {SearchFilters(c[1], c[2][1], c[2][2], c[3][1], c[3][2]) : c \in FilterChoices}

(***************************************************************************)
(* The producers: walker entries (indexer.rs) and MFT records              *)
(* (mft_indexer.rs).                                                       *)
(***************************************************************************)
\* Utc::now().to_rfc3339(), as a clock reading
Now == 3

\* BATCH_SIZE (5_000 in the source), scaled to the model
BATCH_SIZE == 2

\* max_scan (1_000_000 in the source), scaled to the model
max_scan == 4

\* the strings of Indexer::get_default_exclude_patterns()
PatGit == << 46, 103, 105, 116 >>                                \* ".git"
PatNodeModules ==
    << 110, 111, 100, 101, 95, 109, 111, 100, 117, 108, 101, 115 >>  \* "node_modules"
PatTarget == << 116, 97, 114, 103, 101, 116 >>                   \* "target"
PatDSStore == << 46, 68, 83, 95, 83, 116, 111, 114, 101 >>       \* ".DS_Store"
PatPycache == << 95, 95, 112, 121, 99, 97, 99, 104, 101, 95, 95 >>  \* "__pycache__"
PatDotVenv == << 46, 118, 101, 110, 118 >>                       \* ".venv"
PatVenv == << 118, 101, 110, 118 >>                              \* "venv"

get_default_exclude_patterns ==
    << PatGit, PatNodeModules, PatTarget, PatDSStore, PatPycache, PatDotVenv,
       PatVenv >>

\* reindex_path: the defaults stand in for an empty exclude_patterns
ExcludePatterns(exclude_patterns) ==
    IF exclude_patterns = << >> THEN get_default_exclude_patterns
    ELSE exclude_patterns

\* The predicate the WalkBuilder holds after `for pattern in
\* &exclude_patterns { walk.filter_entry(..) }`: filter_entry stores the
\* closure in the builder's one filter slot, so each call replaces the
\* closure of the call before it and the last pattern is the one applied.
EntryFilter(patterns, path) ==
    patterns = << >> \/ ~Contains(path, patterns[Len(patterns)])

\* an entry the walk yields: its file type, leaf name, extension without the
\* dot (Option), metadata.len() and metadata.modified()
WalkEntry(file_type, name, ext, len, mtime) ==
    [file_type |-> file_type, path |-> PathOf(name), name |-> name, ext |-> ext,
     len |-> len, mtime |-> mtime]

\* the FileRecord the walker pushes for a directory entry
WalkDirRecord(e) == FileRecord(e.path, e.name, None, None, TRUE, Now, Now)

\* the FileRecord the walker pushes for a file entry
WalkFileRecord(e) ==
    FileRecord(e.path, e.name,
               IF IsSome(e.ext) THEN Some(<< 46 >> \o Unwrap(e.ext)) ELSE None,
               Some(AsI64(e.len)), FALSE, e.mtime, Now)

\* what one iteration of `for result in walker` pushes: a record for a
\* directory or a file, nothing for any other entry
WalkRecord(e) ==
    IF e.file_type = "dir" THEN Some(WalkDirRecord(e))
    ELSE IF e.file_type = "file" THEN Some(WalkFileRecord(e))
    ELSE None

\* An MFT record as index_drive reads it: whether bytes 0..4 are "FILE",
\* usa_count, whether the sector-end words equal the USN, whether the
\* attribute fields stay inside the record, the in-use flag, and what
\* the first resident FILENAME attribute decodes to.
MftRecord(magic, usa_count, usn_ok, attr_ok, in_use, filename, is_dir, size) ==
    [magic |-> magic, usa_count |-> usa_count, usn_ok |-> usn_ok,
     attr_ok |-> attr_ok, in_use |-> in_use, filename |-> filename,
     is_dir |-> is_dir, size |-> size]

\* name.rfind('.')
RECURSIVE RFindDot(_, _)
RFindDot(name, i) ==
    IF i = 0 THEN 0 ELSE IF name[i] = 46 THEN i ELSE RFindDot(name, i - 1)

\* the extension index_drive computes
MftExtension(name, is_dir) ==
    LET idx == RFindDot(name, Len(name))
    IN  IF is_dir \/ idx = 0 THEN None
        ELSE Some(<< 46 >> \o SubSeq(name, idx, Len(name)))

\* format!("{}:\\{}", drive, name) for drive C
MftPath(name) == << 67, 58, 92 >> \o name

\* the FileRecord index_drive pushes for a decoded record
MftFileRecord(rec) ==
    FileRecord(MftPath(Unwrap(rec.filename)), Unwrap(rec.filename),
               MftExtension(Unwrap(rec.filename), rec.is_dir),
               Some(AsI64(rec.size)), rec.is_dir, Now, Now)

Outcome(kind, file) == [kind |-> kind, file |-> file]

\* One iteration of the scan loop on a record that was read: "skip"
\* (continue), "emit" (a FileRecord is pushed), "err" (a `?` on a read past
\* the end of the record returns Err from index_drive), "panic" (apply_fixups
\* indexes the empty update sequence array of a record with usa_count = 0).
scan_record(rec) ==
    IF ~rec.magic THEN Outcome("skip", None)
    ELSE IF rec.usa_count = 0 THEN Outcome("panic", None)
    ELSE IF ~rec.usn_ok THEN Outcome("skip", None)
    ELSE IF ~rec.attr_ok THEN Outcome("err", None)
    ELSE IF IsSome(rec.filename) /\ rec.in_use /\ Unwrap(rec.filename) # << >>
         THEN Outcome("emit", Some(MftFileRecord(rec)))
    ELSE Outcome("skip", None)

\* A root path: its string, whether it has the form of a drive (is_windows_drive), whether
\* the raw device opens (can_use_mft), whether index_drive can open it and
\* read its boot sector, the records the device holds from the MFT offset on,
\* whether the path exists, and the entries a walk of it yields.
Root(path, is_drive, can_open, boot_ok, records, exists, entries) ==
    [path |-> path, is_drive |-> is_drive, can_open |-> can_open,
     boot_ok |-> boot_ok, records |-> records, exists |-> exists,
     entries |-> entries]

\* the entry of depth 0: the root directory itself.  The roots of the model
\* ("/", "C:\") have no last component, and file_name() is then the path.
RootEntry(root) ==
    [file_type |-> "dir", path |-> root.path, name |-> root.path, ext |-> None,
     len |-> 0, mtime |-> Now]

\* What the iterator of walk.build() yields for a root: the root itself,
\* which no filter is applied to, then the entries below it that pass the
\* filter.  An entry below a directory that does not pass has a path that
\* contains the directory's, so it does not pass either (the directory is
\* not descended into).  The trees of the model hold no hidden and no
\* git-ignored entries.
WalkerEntries(root, patterns) ==
    LET Passes(e) == EntryFilter(patterns, e.path)
    IN  << RootEntry(root) >> \o SelectSeq(root.entries, Passes)

HomeEntries ==
    << WalkEntry("dir", NameLower, None, 0, 1),
       WalkEntry("other", NameUpper, None, 0, 1),
       WalkEntry("file", NameUpper, None, 2, 2) >>

\* the same directory walked at another time: "ab" is now a file
HomeEntriesLater ==
    << WalkEntry("file", NameLower, None, 2, 2),
       WalkEntry("file", NameOther, Some(<< 116 >>), 1, 1) >>

HomeRoot == Root(<< 47 >>, FALSE, FALSE, FALSE, << >>, TRUE, HomeEntries)
HomeRootLater == Root(<< 47 >>, FALSE, FALSE, FALSE, << >>, TRUE, HomeEntriesLater)
MissingRoot == Root(<< 47, 120 >>, FALSE, FALSE, FALSE, << >>, FALSE, << >>)

\* a project directory: node_modules, and venv with a file in it
ProjectEntries ==
    << WalkEntry("dir", PatNodeModules, None, 0, 1),
       WalkEntry("dir", PatVenv, None, 0, 1),
       [WalkEntry("file", NameLower, None, 1, 1)
           EXCEPT !.path = PathOf(PatVenv) \o PathOf(NameLower)] >>

ProjectRoot == Root(<< 47 >>, FALSE, FALSE, FALSE, << >>, TRUE, ProjectEntries)

GoodRecord(name, is_dir, size) ==
    MftRecord(TRUE, 3, TRUE, TRUE, TRUE, Some(name), is_dir, size)

\* a volume whose records all decode; two of them carry the same name
ImageGood ==
    << GoodRecord(NameLower, FALSE, 1),
       MftRecord(FALSE, 0, FALSE, FALSE, FALSE, None, FALSE, 0),
       GoodRecord(NameUpper, TRUE, 0),
       GoodRecord(NameLower, FALSE, 2) >>

\* a volume that holds two files named "ab" in different directories, the
\* first in the first batch and the second after it, and then a record with
\* an attribute that runs past the record
ImageTruncated ==
    << GoodRecord(NameLower, FALSE, 1) >>
        \o [i \in 1 .. (BATCH_SIZE - 1) |-> GoodRecord(NameUpper, TRUE, 0)]
        \o << GoodRecord(NameLower, FALSE, 2),
              MftRecord(TRUE, 3, TRUE, FALSE, TRUE, None, FALSE, 0) >>

\* a volume whose second record has the magic and usa_count = 0
ImageZeroUsa ==
    << GoodRecord(NameLower, FALSE, 1),
       MftRecord(TRUE, 0, TRUE, TRUE, TRUE, Some(NameUpper), FALSE, 1) >>

DriveEntries ==
    << [WalkEntry("file", NameLower, None, 1, 1) EXCEPT !.path = MftPath(NameLower)] >>

DriveRoot(boot_ok, image) ==
    Root(<< 67, 58, 92 >>, TRUE, TRUE, boot_ok, image, TRUE, DriveEntries)

\* the drive of ImageTruncated as the walker sees it: the directory "AB" at
\* the top (the files named "ab" are below directories that are hidden)
TruncatedEntries ==
    << [WalkEntry("dir", NameUpper, None, 0, 1) EXCEPT !.path = MftPath(NameUpper)] >>

TruncatedDrive ==
    Root(<< 67, 58, 92 >>, TRUE, TRUE, TRUE, ImageTruncated, TRUE, TruncatedEntries)

\* the root lists of the runs: Indexer::get_default_indexing_paths() for the
\* auto-index, vec![p] or the defaults for reindex_path
DefaultPaths == {<< HomeRoot >>}

ReindexPaths ==
    {<< HomeRootLater, MissingRoot, HomeRoot >>, << ProjectRoot, ProjectRoot >>,
     << DriveRoot(TRUE, ImageGood) >>, << TruncatedDrive >>,
     << DriveRoot(TRUE, ImageZeroUsa) >>, << DriveRoot(FALSE, ImageGood) >>}

\* the exclude_patterns argument of reindex_path
ReindexExcludes == {<< >>}

(***************************************************************************)
(* The MFT record as bytes (mft_indexer.rs): apply_fixups and the decoding *)
(* of the FILENAME attribute.  Offsets are counted from 0, as in the       *)
(* source; a buffer is the sequence of its bytes.                          *)
(***************************************************************************)
MFT_RECORD_SIZE == 1024

\* 0x30
ATTR_FILENAME == 48

\* 0xFFFFFFFF, as the four bytes read_u32 reads it from
END_OF_ATTRIBUTES == << 255, 255, 255, 255 >>

\* b"FILE"
FILE == << 70, 73, 76, 69 >>

\* &buffer[p..p + n]
Slice(buffer, p, n) == SubSeq(buffer, p + 1, p + n)

\* from_le_bytes / read_u16, read_u32::<LittleEndian>
RECURSIVE LE(_)
LE(bytes) ==
    IF bytes = << >> THEN 0 ELSE Head(bytes) + 256 * LE(Tail(bytes))

\* read_u64::<LittleEndian>, kept to the width of the model's 64-bit
\* integers
RECURSIVE LE64(_)
LE64(bytes) ==
    IF bytes = << >> THEN 0
    ELSE (Head(bytes) + 256 * LE64(Tail(bytes))) % WordMod

\* a read of n bytes at position p of a Cursor over the buffer succeeds
CanRead(buffer, p, n) == p + n <= Len(buffer)

\* what apply_fixups leaves: it returned true or false, or it panicked, and
\* the buffer as it then is
Fixed(kind, buffer) == [kind |-> kind, buffer |-> buffer]

\* the loop `for i in 0..(usa_count - 1)` from i on
RECURSIVE FixupLoop(_, _, _, _, _)
FixupLoop(buffer, fixup_data, bytes_per_sector, usa_count, i) ==
    IF i >= usa_count - 1 THEN Fixed("true", buffer)
    ELSE LET idx == (i + 1) * 2
             position_of_strip == (i + 1) * bytes_per_sector - 2
         IN  \* usize underflow for bytes_per_sector < 2: a panic where
             \* overflow is checked; else the value wraps to the top of
             \* the range, passes the bounds test and the index panics
             IF position_of_strip < 0 THEN Fixed("panic", buffer)
             ELSE IF position_of_strip + 2 > Len(buffer) THEN Fixed("false", buffer)
             ELSE IF Slice(buffer, position_of_strip, 2) # Slice(fixup_data, 0, 2)
                  THEN Fixed("false", buffer)
             ELSE FixupLoop([buffer EXCEPT ![position_of_strip + 1] = fixup_data[idx + 1],
                                           ![position_of_strip + 2] = fixup_data[idx + 2]],
                            fixup_data, bytes_per_sector, usa_count, i + 1)

\* apply_fixups.  `fixup_data[0]` is an index into the copy of the update
\* sequence array: it panics when usa_count = 0 has left the copy empty.
apply_fixups(buffer, bytes_per_sector) ==
    IF Len(buffer) < 8 THEN Fixed("false", buffer)
    ELSE LET start == LE(Slice(buffer, 4, 2))
             usa_count == LE(Slice(buffer, 6, 2))
             end == start + usa_count * 2
         IN  IF end > Len(buffer) THEN Fixed("false", buffer)
             ELSE IF usa_count = 0 THEN Fixed("panic", buffer)
             ELSE FixupLoop(buffer, Slice(buffer, start, end - start),
                            bytes_per_sector, usa_count, 0)

\* String::from_utf16 on the code units of a name: the chars, or None for
\* an unpaired surrogate
RECURSIVE from_utf16(_)
from_utf16(units) ==
    IF units = << >> THEN Some(<< >>)
    ELSE LET u == Head(units)
         IN  IF u >= 55296 /\ u <= 56319
             THEN IF Len(units) >= 2 /\ units[2] >= 56320 /\ units[2] <= 57343
                  THEN LET rest == from_utf16(SubSeq(units, 3, Len(units)))
                       IN  IF IsSome(rest)
                           THEN Some(<< 65536 + (u - 55296) * 1024 + (units[2] - 56320) >>
                                         \o Unwrap(rest))
                           ELSE None
                  ELSE None
             ELSE IF u >= 56320 /\ u <= 57343 THEN None
             ELSE LET rest == from_utf16(Tail(units))
                  IN  IF IsSome(rest) THEN Some(<< u >> \o Unwrap(rest)) ELSE None

\* name_buffer.chunks_exact(2).map(u16::from_le_bytes)
RECURSIVE Units(_)
Units(name_buffer) ==
    IF Len(name_buffer) < 2 THEN << >>
    ELSE << LE(SubSeq(name_buffer, 1, 2)) >>
             \o Units(SubSeq(name_buffer, 3, Len(name_buffer)))

\* what the attribute loop leaves: whether a `?` returned Err, and the
\* filename, file_size (the u64 read) and is_dir it has set
Decoded(err, filename, file_size, is_dir) ==
    [err |-> err, filename |-> filename, file_size |-> file_size, is_dir |-> is_dir]

\* The decoding of a resident FILENAME attribute that starts at
\* attr_start_pos: d as the loop leaves it (err set where a `?` returns Err).
\* The flags are the u32 at content + 48, of which bit 0x10000000 is bit 4 of
\* the byte at content + 51; the cursor is then at content + 52, and
\* seek(Current(8)) puts the read of the size at content + 60.
DecodeFilename(buffer, attr_start_pos, d) ==
    IF ~CanRead(buffer, attr_start_pos + 20, 2) THEN [d EXCEPT !.err = TRUE]
    ELSE LET content_offset == LE(Slice(buffer, attr_start_pos + 20, 2))
             absolute_content_pos == attr_start_pos + content_offset
         IN  IF ~CanRead(buffer, absolute_content_pos + 48, 4)
             THEN [d EXCEPT !.err = TRUE]
             ELSE LET is_dir == (buffer[absolute_content_pos + 51 + 1] \div 16) % 2 = 1
                      size_pos == absolute_content_pos + 48 + 4 + 8
                      d1 == [d EXCEPT !.is_dir = is_dir]
                  IN  IF ~CanRead(buffer, size_pos, 8)
                      THEN [d1 EXCEPT !.err = TRUE]
                      ELSE LET size == LE64(Slice(buffer, size_pos, 8))
                               d2 == [d1 EXCEPT !.file_size = Some(size)]
                           IN  IF ~CanRead(buffer, absolute_content_pos + 64, 2)
                               THEN [d2 EXCEPT !.err = TRUE]
                               ELSE LET name_len == buffer[absolute_content_pos + 64 + 1]
                                        name_bytes_len == name_len * 2
                                    IN  IF ~CanRead(buffer, absolute_content_pos + 66,
                                                    name_bytes_len)
                                        THEN d2
                                        ELSE LET name == from_utf16(Units(
                                                     Slice(buffer, absolute_content_pos + 66,
                                                           name_bytes_len)))
                                             IN  IF IsSome(name)
                                                 THEN [d2 EXCEPT !.filename = name]
                                                 ELSE d2

\* what one iteration of the attribute loop does: "break" ends the loop,
\* "err" is a `?` that returns Err, "next" goes on at pos; d as the iteration
\* leaves it; read: the attribute header at the position was read; decoded:
\* the attribute was decoded as a resident FILENAME attribute
Iteration(kind, pos, d, read, decoded) ==
    [kind |-> kind, pos |-> pos, d |-> d, read |-> read, decoded |-> decoded]

\* the attribute loop with a zero attribute length not ending it
EndsWalk_Never(attr_len) == FALSE

\* `if attr_len == 0 { break; }`
EndsWalk(attr_len) == attr_len = 0

\* the FILENAME test without `filename.is_none()`
Considered_Every(attr_type, filename) == attr_type = << ATTR_FILENAME, 0, 0, 0 >>

\* `attr_type == ATTR_FILENAME && filename.is_none()`
Considered(attr_type, filename) ==
    attr_type = << ATTR_FILENAME, 0, 0, 0 >> /\ ~IsSome(filename)

\* one iteration of the attribute loop with the cursor at pos
AttributeStep(buffer, pos, d) ==
    IF pos >= MFT_RECORD_SIZE - 8 THEN Iteration("break", pos, d, FALSE, FALSE)
    ELSE IF ~CanRead(buffer, pos, 4)
         THEN Iteration("err", pos, [d EXCEPT !.err = TRUE], FALSE, FALSE)
    ELSE IF Slice(buffer, pos, 4) = END_OF_ATTRIBUTES
         THEN Iteration("break", pos, d, TRUE, FALSE)
    ELSE IF ~CanRead(buffer, pos + 4, 4)
         THEN Iteration("err", pos, [d EXCEPT !.err = TRUE], TRUE, FALSE)
    ELSE LET attr_type == Slice(buffer, pos, 4)
             attr_len == LE(Slice(buffer, pos + 4, 4))
         IN  IF EndsWalk(attr_len) THEN Iteration("break", pos, d, TRUE, FALSE)
             ELSE IF Considered(attr_type, d.filename)
                  THEN IF ~CanRead(buffer, pos + 8, 1)
                       THEN Iteration("err", pos, [d EXCEPT !.err = TRUE], TRUE, FALSE)
                       ELSE IF buffer[pos + 8 + 1] # 0
                            THEN Iteration("next", pos + attr_len, d, TRUE, FALSE)
                       ELSE LET d1 == DecodeFilename(buffer, pos, d)
                            IN  IF d1.err THEN Iteration("err", pos, d1, TRUE, TRUE)
                                ELSE Iteration("next", pos + attr_len, d1, TRUE, TRUE)
                  ELSE Iteration("next", pos + attr_len, d, TRUE, FALSE)

\* the attribute loop from position pos on: its iterations, one after the
\* other (it: what the iteration at pos comes to)
RECURSIVE AttributeLoop(_, _, _)
AttributeLoop(buffer, pos, d) ==
    CHOOSE left \in {IF it.kind = "next" THEN AttributeLoop(buffer, it.pos, it.d)
                     ELSE it.d : it \in {AttributeStep(buffer, pos, d)}} : TRUE

\* the record emitted although it is not in use
ShouldEmit_NotInUse(in_use, filename) ==
    IsSome(filename) /\ Unwrap(filename) # << >>

\* `if let Some(name) = filename { if in_use && !name.is_empty() {`
ShouldEmit(in_use, filename) ==
    IsSome(filename) /\ in_use /\ Unwrap(filename) # << >>

\* One iteration of the scan loop on the buffer read_exact has filled: the
\* magic, the fixups, the header fields, the attribute loop, the emission.
scan_buffer(buffer, bytes_per_sector) ==
    IF Slice(buffer, 0, 4) # FILE THEN Outcome("skip", None)
    ELSE LET fx == apply_fixups(buffer, bytes_per_sector)
         IN  IF fx.kind = "panic" THEN Outcome("panic", None)
             ELSE IF fx.kind = "false" THEN Outcome("skip", None)
             ELSE IF ~CanRead(fx.buffer, 22, 2) \/ ~CanRead(fx.buffer, 20, 2)
                  THEN Outcome("err", None)
             ELSE LET flags == LE(Slice(fx.buffer, 22, 2))
                      in_use == flags % 2 = 1
                      first_attr_offset == LE(Slice(fx.buffer, 20, 2))
                      d == AttributeLoop(fx.buffer, first_attr_offset,
                                         Decoded(FALSE, None, None, FALSE))
                  IN  IF d.err THEN Outcome("err", None)
                      ELSE IF ShouldEmit(in_use, d.filename)
                           THEN Outcome("emit",
                                        Some(MftFileRecord(
                                            MftRecord(TRUE, LE(Slice(fx.buffer, 6, 2)),
                                                      TRUE, TRUE, in_use, d.filename,
                                                      d.is_dir, Unwrap(d.file_size)))))
                      ELSE Outcome("skip", None)

(***************************************************************************)
(* Records for the scanner, built the way the spec lays them out: the      *)
(* fields of a record and the 1024 bytes a volume holds for it.            *)
(***************************************************************************)
\* buf with bytes written at offset p (what falls outside buf is dropped)
Put(buf, p, bytes) ==
    LET n == Len(buf)
        k == IF p >= n THEN 0
             ELSE IF Len(bytes) <= n - p THEN Len(bytes) ELSE n - p
    IN  IF k = 0 THEN buf
        ELSE SubSeq(buf, 1, p) \o SubSeq(bytes, 1, k) \o SubSeq(buf, p + k + 1, n)

U16Bytes(n) == << n % 256, (n \div 256) % 256 >>
U32Bytes(n) == << n % 256, (n \div 256) % 256, (n \div 65536) % 256, 0 >>

\* the code units of the names
UnitsDotted == << 97, 46, 116 >>          \* "a.t"
UnitsTwoDots == << 97, 46, 98, 46, 116 >> \* "a.b.t"
UnitsSurrogate == << 97, 55296 >>         \* an unpaired surrogate

\* A record with one FILENAME attribute: whether it starts with FILE, the
\* update sequence array (offset, count, whether the word at the end of
\* each 512-byte sector equals the USN), the in-use flag, the offset of the
\* attribute, its type, non-resident byte, length and content offset, and
\* in the content the name (code units, and the length byte), the directory
\* flag and the size.
GoodFile(units, is_dir, size) ==
    [magic |-> TRUE, usa_offset |-> 48, usa_count |-> 3, ends |-> << TRUE, TRUE >>,
     in_use |-> TRUE, first_attr_offset |-> 56, attr_type |-> ATTR_FILENAME,
     non_resident |-> 0, attr_len |-> 24 + 72 + 2 * Len(units),
     content_offset |-> 24, units |-> units, name_len |-> Len(units),
     is_dir |-> is_dir, size |-> size]

\* the update sequence number on the volume, a word that is not the USN,
\* and the data of the record at the ends of its two sectors
Usn == << 7, 7 >>
NotUsn == << 9, 9 >>
SectorEndData == << 17, 18 >>

\* the content of the FILENAME attribute: the flags at +48, the size
\* at +56, the name length at +64, the namespace, the name at +66
Content(p) ==
    LET zero == [i \in 1 .. (66 + 2 * Len(p.units)) |-> 0]
        name == [i \in 1 .. (2 * Len(p.units)) |->
                    IF i % 2 = 1 THEN p.units[(i + 1) \div 2] % 256
                    ELSE p.units[i \div 2] \div 256]
    IN  Put(Put(Put(Put(zero, 48, << 0, 0, 0, IF p.is_dir THEN 16 ELSE 0 >>),
                    56, << p.size, 0, 0, 0, 0, 0, 0, 0 >>),
                64, << p.name_len, 1 >>),
            66, name)

\* the record before the sector ends are stamped: header, attribute, end
\* marker
Plain(p) ==
    LET zero == [i \in 1 .. MFT_RECORD_SIZE |-> 0]
        a == p.first_attr_offset
        header == Put(Put(Put(Put(Put(zero, 0, IF p.magic THEN FILE ELSE << 66, 65, 65, 68 >>),
                                  4, U16Bytes(p.usa_offset)),
                              6, U16Bytes(p.usa_count)),
                          20, U16Bytes(a)),
                      22, U16Bytes(IF p.in_use THEN 1 ELSE 0))
        data == Put(Put(header, 510, SectorEndData), 1022, SectorEndData)
        attr == Put(Put(Put(Put(data, a, U32Bytes(p.attr_type)),
                            a + 4, U32Bytes(p.attr_len)),
                        a + 8, << p.non_resident >>),
                    a + 20, U16Bytes(p.content_offset))
    IN  Put(Put(attr, a + p.content_offset, Content(p)),
            a + p.attr_len, END_OF_ATTRIBUTES)

\* the record as the volume holds it: the words at the sector ends are kept
\* in the update sequence array and the USN is stamped over them
Encode(p) ==
    LET d == Plain(p)
        originals == [k \in 1 .. (2 * p.usa_count) |->
                         IF k <= 2 THEN Usn[k]
                         ELSE IF k <= 4 THEN d[510 + k - 2]
                         ELSE IF k <= 6 THEN d[1022 + k - 4]
                         ELSE 0]
    IN  Put(Put(Put(d, p.usa_offset, originals),
                510, IF p.ends[1] THEN Usn ELSE NotUsn),
            1022, IF p.ends[2] THEN Usn ELSE NotUsn)

GoodAb == GoodFile(NameLower, FALSE, 5)

\* the records of the volumes: well-formed ones, and GoodAb with one thing
\* changed
RecordShapes ==
    {GoodAb,
     GoodFile(NameUpper, TRUE, 0),
     GoodFile(UnitsDotted, FALSE, 3),
     GoodFile(UnitsDotted, TRUE, 0),
     GoodFile(UnitsTwoDots, FALSE, 1),
     GoodFile(<< >>, FALSE, 2),
     GoodFile(UnitsSurrogate, FALSE, 2),
     [GoodAb EXCEPT !.magic = FALSE],
     [GoodAb EXCEPT !.in_use = FALSE],
     [GoodAb EXCEPT !.usa_count = 0],
     [GoodAb EXCEPT !.usa_count = 1],
     [GoodAb EXCEPT !.usa_count = 4],
     [GoodAb EXCEPT !.usa_offset = 1020],
     [GoodAb EXCEPT !.usa_offset = 1024, !.usa_count = 0],
     [GoodAb EXCEPT !.usa_offset = 1026, !.usa_count = 0],
     [GoodAb EXCEPT !.ends = << FALSE, TRUE >>],
     [GoodAb EXCEPT !.ends = << TRUE, FALSE >>],
     [GoodAb EXCEPT !.first_attr_offset = 420],
     [GoodAb EXCEPT !.first_attr_offset = 1020],
     [GoodAb EXCEPT !.non_resident = 1],
     [GoodAb EXCEPT !.attr_type = 16],
     [GoodAb EXCEPT !.attr_len = 0],
     [GoodAb EXCEPT !.attr_len = 2000],
     [GoodAb EXCEPT !.content_offset = 1000],
     [GoodAb EXCEPT !.first_attr_offset = 600, !.name_len = 255]}

\* a volume after the boot sector has been parsed: bytes_per_sector and
\* the records from the MFT offset on
Volume(bytes_per_sector, records) ==
    [bytes_per_sector |-> bytes_per_sector, records |-> records]

\* two valid records and between them one whose first sector end does not
\* hold the USN
ImageWrongUsn ==
    << GoodAb, [GoodFile(NameUpper, FALSE, 1) EXCEPT !.ends = << FALSE, TRUE >>],
       GoodFile(UnitsDotted, FALSE, 3) >>

\* more records than the scan reads
ImageLong ==
    [i \in 1 .. (max_scan + 1) |->
        IF i % 2 = 1 THEN GoodAb ELSE GoodFile(UnitsDotted, FALSE, 3)]

Volumes ==
    {Volume(512, << p >>) : p \in RecordShapes}
        \cup {Volume(b, << GoodAb, GoodFile(NameUpper, TRUE, 0) >>) : b \in {0, 1, 1024, 2048}}
        \cup {Volume(512, << p, GoodFile(UnitsDotted, FALSE, 3) >>) :
                  p \in {[GoodAb EXCEPT !.content_offset = 1000],
                         [GoodAb EXCEPT !.usa_count = 0],
                         [GoodAb EXCEPT !.in_use = FALSE],
                         [GoodAb EXCEPT !.attr_len = 2000]}}
        \cup {Volume(512, << GoodAb, [GoodAb EXCEPT !.content_offset = 1000] >>)}
        \cup {Volume(512, ImageWrongUsn), Volume(512, ImageLong), Volume(512, << >>)}

(***************************************************************************)
(* The SectorReader (mft_indexer.rs) over a byte source.                   *)
(***************************************************************************)
\* the largest source, read and seek target of the model
MaxSource == 6
MaxRead == 3

Min(a, b) == IF a <= b THEN a ELSE b

\* SectorReader::new: nothing buffered, position 0
SectorReader_new(inner, sector_size) ==
    [inner |-> inner, inner_pos |-> 0, sector_size |-> sector_size,
     buffer |-> [i \in 1 .. sector_size |-> 0],
     buffer_offset |-> 0, buffer_valid |-> 0, pos |-> 0]

\* what a read returns: Ok with the bytes copied into buf, or no return
\* ("hang"), and the reader after it
ReadResult(kind, bytes, reader) == [kind |-> kind, bytes |-> bytes, reader |-> reader]

\* the refill of the buffer from the sector that starts at
\* current_sector_start: inner.seek(..), inner.read(sector_slice)
Refill(r, current_sector_start) ==
    LET read_bytes == Min(r.sector_size,
                          IF current_sector_start >= Len(r.inner) THEN 0
                          ELSE Len(r.inner) - current_sector_start)
    IN  [r EXCEPT !.inner_pos = current_sector_start + read_bytes,
                  !.buffer = [i \in 1 .. r.sector_size |->
                                 IF i <= read_bytes
                                 THEN r.inner[current_sector_start + i] ELSE @[i]],
                  !.buffer_valid = read_bytes,
                  !.buffer_offset = current_sector_start]

\* <SectorReader as Read>::read(buf) with buf.len() = n.  again: this is the
\* call `return self.read(buf)` made after buffer_valid was set to 0.  That
\* call refills the same sector from the same source; when it comes to the
\* same place the calls go on without end (the stack overflows, or the
\* loop spins where the call is compiled as a jump)
RECURSIVE SectorReader_read(_, _, _)
SectorReader_read(r, n, again) ==
    IF n = 0 THEN ReadResult("ok", << >>, r)
    ELSE LET current_sector_start == (r.pos \div r.sector_size) * r.sector_size
             offset_in_sector == r.pos % r.sector_size
             refill == r.buffer_valid = 0 \/ r.buffer_offset # current_sector_start
             r1 == IF refill THEN Refill(r, current_sector_start) ELSE r
         IN  IF refill /\ r1.buffer_valid = 0 THEN ReadResult("ok", << >>, r1)
             ELSE LET available_in_sector ==
                          IF r1.buffer_valid > offset_in_sector
                          THEN r1.buffer_valid - offset_in_sector ELSE 0
                      to_copy == Min(n, available_in_sector)
                  IN  IF to_copy = 0 /\ available_in_sector = 0
                      THEN IF again THEN ReadResult("hang", << >>, r1)
                           ELSE SectorReader_read([r1 EXCEPT !.buffer_valid = 0], n, TRUE)
                      ELSE ReadResult("ok",
                                      SubSeq(r1.buffer, offset_in_sector + 1,
                                             offset_in_sector + to_copy),
                                      [r1 EXCEPT !.pos = @ + to_copy])

\* reader.read_exact(buf) with buf.len() = n (the provided method of Read):
\* read until buf is full; a read of 0 bytes ends it with Err(UnexpectedEof)
\* ("eof"), and a read that does not return leaves it without return
RECURSIVE read_exact(_, _, _)
read_exact(r, n, got) ==
    IF n = 0 THEN ReadResult("ok", got, r)
    ELSE LET res == SectorReader_read(r, n, FALSE)
         IN  IF res.kind = "hang" THEN ReadResult("hang", got, res.reader)
             ELSE IF res.bytes = << >> THEN ReadResult("eof", got, res.reader)
             ELSE read_exact(res.reader, n - Len(res.bytes), got \o res.bytes)

\* <SectorReader as Seek>::seek
SeekFrom(whence, v) == [whence |-> whence, v |-> v]

SectorReader_seek(r, pos) ==
    IF pos.whence = "Start" THEN [r EXCEPT !.pos = pos.v]
    ELSE IF pos.whence = "End"
         THEN [r EXCEPT !.inner_pos = Len(r.inner) + pos.v, !.pos = Len(r.inner) + pos.v]
    ELSE [r EXCEPT !.pos = r.pos + pos.v]

\* read on the source itself (a Cursor or File at position p): up to n
\* bytes, none at or after the end
Unbuffered(inner, p, n) ==
    IF p >= Len(inner) THEN << >>
    ELSE SubSeq(inner, p + 1, Min(Len(inner), p + n))

\* the sources: 0 .. MaxSource bytes, each byte its own offset + 1
Sources == {[i \in 1 .. n |-> i] : n \in 0 .. MaxSource}

\* sector sizes (align_offset takes a power of two)
SectorSizes == {2, 4}

\* the seeks of the model: those whose target is a position of the range
Seeks ==
    {SeekFrom("Start", v) : v \in 0 .. (MaxSource + 2)}
        \cup {SeekFrom("End", v) : v \in -2 .. 1}
        \cup {SeekFrom("Current", v) : v \in {-3, -1, 2}}

Target(r, pos) == SectorReader_seek(r, pos).pos

(***************************************************************************)
(* Records with several attributes, for the attribute loop.                *)
(***************************************************************************)
\* the most attributes a record of the model holds before its end marker
MaxAttrs == 2

\* An attribute as the record holds it: the type and length fields of its
\* header, the bytes it takes in the record (room; the next attribute
\* starts after them), the non-resident byte and, for a FILENAME attribute,
\* the content.
Attr(attr_type, attr_len, non_resident, units, is_dir) ==
    [attr_type |-> attr_type, attr_len |-> attr_len, room |-> attr_len,
     non_resident |-> non_resident, content_offset |-> 24, units |-> units,
     name_len |-> Len(units), is_dir |-> is_dir, size |-> 1]

FileNameType == << ATTR_FILENAME, 0, 0, 0 >>

\* $STANDARD_INFORMATION (0x10), never decoded
StandardInformation == Attr(<< 16, 0, 0, 0 >>, 24, 0, << >>, FALSE)

\* a resident FILENAME attribute
FileName(units, is_dir) == Attr(FileNameType, 24 + 66 + 2 * Len(units), 0, units, is_dir)

\* the end marker in the place of an attribute
EndMarker == [StandardInformation EXCEPT !.attr_type = END_OF_ATTRIBUTES, !.room = 8]

AttrKinds ==
    {StandardInformation,
     FileName(NameLower, FALSE),
     FileName(NameUpper, TRUE),
     [FileName(NameLower, FALSE) EXCEPT !.non_resident = 1],
     FileName(UnitsSurrogate, FALSE),
     EndMarker,
     [StandardInformation EXCEPT !.attr_len = 0],
     [FileName(NameLower, FALSE) EXCEPT !.attr_len = 0],
     [StandardInformation EXCEPT !.attr_len = 2000],
     [FileName(NameLower, FALSE) EXCEPT !.content_offset = 1000]}

RECURSIVE AttrListsOf(_)
AttrListsOf(n) ==
    IF n = 0 THEN {<< >>}
    ELSE LET shorter == AttrListsOf(n - 1)
         IN  shorter \cup {Append(l, a) : l \in {x \in shorter : Len(x) = n - 1},
                                          a \in AttrKinds}

AttrLists == AttrListsOf(MaxAttrs) \ {<< >>}

\* the offset of the first attribute in the records of the model
FirstAttrOffset == GoodAb.first_attr_offset

\* where attribute k of the list starts in the record (k = Len + 1: the end
\* marker after the last attribute)
RECURSIVE AttrPos(_, _)
AttrPos(attrs, k) ==
    IF k = 1 THEN FirstAttrOffset ELSE AttrPos(attrs, k - 1) + attrs[k - 1].room

\* the 24 bytes of an attribute header
AttrHeader(a) ==
    a.attr_type \o U32Bytes(a.attr_len) \o << a.non_resident >>
        \o << 0, 0, 0, 0, 0, 0, 0, 0, 0, 0, 0 >> \o U16Bytes(a.content_offset)
        \o << 0, 0 >>

RECURSIVE LayAttrs(_, _, _)
LayAttrs(buf, pos, attrs) ==
    IF attrs = << >> THEN Put(buf, pos, END_OF_ATTRIBUTES)
    ELSE LET a == Head(attrs)
             header == Put(buf, pos, SubSeq(AttrHeader(a), 1, Min(24, a.room)))
             body == IF a.attr_type = FileNameType
                     THEN Put(header, pos + a.content_offset, Content(a))
                     ELSE header
         IN  LayAttrs(body, pos + a.room, Tail(attrs))

\* the in-use record with these attributes, as apply_fixups leaves it
WalkBuffer(attrs) ==
    LET zero == [i \in 1 .. MFT_RECORD_SIZE |-> 0]
        header == Put(Put(Put(zero, 0, FILE), 20, U16Bytes(FirstAttrOffset)),
                      22, U16Bytes(1))
    IN  LayAttrs(header, FirstAttrOffset, attrs)

(***************************************************************************)
(* State.                                                                  *)
(***************************************************************************)
VARIABLES
    db,     \* the Database behind Arc<Mutex<Database>>: [rows, seq]
    ret,    \* the call on it that has just returned: what was asked, the
            \* database before it, who held the Mutex as it returned, and
            \* what it returned ("none": the caller has taken the result and
            \* may call again)
    lock,   \* the Mutex: Free or the process whose guard is alive
    pc,     \* where each process of the application is
    loc,    \* the locals of each indexing run
    events, \* the events each run has emitted to the shell, in order
    faults, \* the store write faults injected so far
    req,    \* the search request being served
    scan,   \* index_drive on a volume read as bytes: its locals, and the
            \* record it read last with what apply_fixups and the decoding
            \* made of it
    sr,     \* a SectorReader in use: the reader, the call made on it last,
            \* and the bytes the reads since the last seek have delivered
    walk    \* the attribute loop on one record: the record, the cursor, what
            \* is decoded so far, and the positions read and decoded

vars == << db, ret, lock, pc, loc, events, faults, req, scan, sr, walk >>
app == << lock, pc, loc, events, faults, req >>
dev == << scan, sr, walk >>

\* no scan of a volume as bytes is under way
NoScan ==
    [pc |-> "off", bytes_per_sector |-> 0, image |-> << >>, todo |-> << >>,
     i |-> 0, batch_buffer |-> << >>, files_found |-> 0, emitted |-> << >>,
     cur |-> << >>]

\* no SectorReader is in use
NoReader ==
    [state |-> "off", reader |-> SectorReader_new(<< >>, 1),
     last |-> [op |-> "none", pre |-> SectorReader_new(<< >>, 1), n |-> 0,
               bytes |-> << >>],
     start |-> 0, total |-> << >>]

\* no attribute loop is under way
NoWalk ==
    [state |-> "off", attrs |-> << >>, buffer |-> << >>, pos |-> 0,
     d |-> Decoded(FALSE, None, None, FALSE), read |-> {}, decoded |-> {}]

NoCall ==
    [op |-> "none", ok |-> TRUE, files |-> << >>, failAt |-> 0, path |-> << >>,
     pre |-> EmptyDb, filters |-> SearchFilters(None, None, None, None, None),
     holder |-> "free", out |-> SearchResults(<< >>, << >>, 0, 0, 0)]

(***************************************************************************)
(* The application: the indexing runs, the search and status commands and  *)
(* the Mutex around the Database (AppSpec).                                *)
(***************************************************************************)
\* store write faults injected in one behaviour
MaxFaults == 2

Free == "free"

\* the startup auto-index thread and the task spawned by reindex_path
Runs == {"auto", "reindex"}
Procs == Runs \cup {"search", "status"}

\* the locals of a run that has not started
\* (flushed: what the flushes of the current root returned; written: the
\* same summed over the roots that are done; produced: the records the run
\* has pushed, in order; mft_err: index_drive returned Err for the current
\* root)
IdleRun(paths, patterns) ==
    [paths |-> paths, patterns |-> patterns, idx |-> 1, mode |-> "walk",
     todo |-> << >>, scanned |-> 0,
     batch_buffer |-> << >>, processed |-> 0, persisted |-> 0,
     files_found |-> 0, total_count |-> 0, cont |-> "none",
     flushed |-> 0, written |-> 0, produced |-> << >>, mft_err |-> FALSE,
     flush |-> [pre |-> EmptyDb, batch |-> << >>, bulk_ok |-> TRUE,
                row_ok |-> << >>, k |-> 0, ok_count |-> 0, result |-> 0,
                calls |-> 0]]

NoRequest == [query |-> << >>, filters |-> SearchFilters(None, None, None, None, None),
              limit |-> 0]

AppQueries == {<< >>, << 97 >>}

\* nothing of the application is running (the store-level specification)
AppOff ==
    /\ lock = Free
    /\ pc = [p \in Procs |-> "off"]
    /\ loc = [r \in Runs |-> IdleRun(<< >>, << >>)]
    /\ events = [r \in Runs |-> << >>]
    /\ faults = 0
    /\ req = NoRequest

\* run(): the database is open, the auto-index thread is spawned, the
\* commands are registered
AppInit ==
    /\ db = EmptyDb
    /\ ret = NoCall
    /\ lock = Free
    /\ pc = [p \in Procs |-> IF p = "auto" THEN "auto_lock" ELSE "idle"]
    /\ \E pa \in DefaultPaths, pr \in ReindexPaths, ex \in ReindexExcludes :
          loc = [r \in Runs |->
                    IF r = "auto" THEN IdleRun(pa, get_default_exclude_patterns)
                    ELSE IdleRun(pr, ExcludePatterns(ex))]
    /\ events = [r \in Runs |-> << >>]
    /\ faults = 0
    /\ req = NoRequest
    /\ scan = NoScan
    /\ sr = NoReader
    /\ walk = NoWalk

Init ==
    /\ db = EmptyDb
    /\ ret = NoCall
    /\ AppOff
    /\ scan = NoScan
    /\ sr = NoReader
    /\ walk = NoWalk

\* db.upsert_file(...) on one record
UpsertFile ==
    \E f \in Universe, fault \in BOOLEAN :
        /\ ret.op = "none"
        /\ db.seq < MaxWrites
        /\ LET r == upsert_file(db, f, fault)
           IN  /\ db' = r.db
               /\ ret' = [NoCall EXCEPT !.op = "upsert_file", !.ok = r.ok,
                                         !.files = << f >>,
                                         !.failAt = IF fault THEN 1 ELSE 0,
                                         !.pre = db]
        /\ UNCHANGED << app, dev >>

\* db.upsert_batch(files)
UpsertBatch ==
    \E files \in Batches :
        \E failAt \in 0 .. (IF files = << >> THEN 0 ELSE Len(files) + 1) :
            /\ ret.op = "none"
            /\ db.seq + Len(files) <= MaxWrites
            /\ LET r == upsert_batch(db, files, failAt)
               IN  /\ db' = r.db
                   /\ ret' = [NoCall EXCEPT !.op = "upsert_batch", !.ok = r.ok,
                                             !.files = files, !.failAt = failAt,
                                             !.pre = db]
            /\ UNCHANGED << app, dev >>

\* db.delete_file(path)
DeleteFile ==
    \E path \in Paths :
        /\ ret.op = "none"
        /\ db' = delete_file(db, path)
        /\ ret' = [NoCall EXCEPT !.op = "delete_file", !.path = path, !.pre = db]
        /\ UNCHANGED << app, dev >>

\* the search_files command, run to completion on the locked database
SearchFiles ==
    \E query \in Queries, filters \in Filters, limit \in Limits :
        /\ ret.op = "none"
        /\ ret' = [NoCall EXCEPT !.op = "search_files", !.pre = db,
                                 !.filters = filters,
                                 !.out = search_files(db, query, filters, 1, limit)]
        /\ UNCHANGED << db, app, dev >>

\* the caller takes the returned value
Return ==
    /\ ret.op # "none"
    /\ ret' = NoCall
    /\ UNCHANGED << db, app, dev >>

Next == UpsertFile \/ UpsertBatch \/ DeleteFile \/ SearchFiles \/ Return

Spec == Init /\ [][Next]_vars

\* Mutex::lock with the mutual exclusion left out
CanLock_NoMutex(p) == TRUE

\* Mutex::lock returns once no other guard is alive
CanLock(p) == lock = Free

Goto(p, to) == pc' = [pc EXCEPT ![p] = to]

Event(kind, payload) == [kind |-> kind, payload |-> payload]
Emit(r, e) == events' = [events EXCEPT ![r] = Append(@, e)]

\* the progress callback invoked before the counter is incremented
Progress_BeforeIncrement(files_processed) ==
    Event("indexing-progress",
          [files_processed |-> files_processed - 1, total_files |-> None,
           status |-> "indexing"])

\* the progress callback: app.emit("indexing-progress", progress)
Progress(files_processed) ==
    Event("indexing-progress",
          [files_processed |-> files_processed, total_files |-> None,
           status |-> "indexing"])

\* ---- the auto-index thread (lib.rs, run) ----

\* db_for_setup.lock().unwrap()
AutoLock ==
    /\ pc["auto"] = "auto_lock"
    /\ CanLock("auto")
    /\ lock' = "auto"
    /\ Goto("auto", "auto_count")
    /\ UNCHANGED << db, ret, loc, events, faults, req, dev >>

\* get_file_count().unwrap_or(0), the guard dropped; index only when 0
AutoCount ==
    /\ pc["auto"] = "auto_count"
    /\ lock' = Free
    /\ Goto("auto", IF get_file_count(db) = 0 THEN "next_root" ELSE "skipped")
    /\ UNCHANGED << db, ret, loc, events, faults, req, dev >>

\* ---- reindex_path (lib.rs): spawns the run and returns ----
ReindexPath ==
    /\ pc["reindex"] = "idle"
    /\ Goto("reindex", "next_root")
    /\ UNCHANGED << db, ret, lock, loc, events, faults, req, dev >>

\* ---- Indexer::index_multiple_paths / index_path ----

\* index_path with the MFT scan never chosen
Eligible_Never(root) == FALSE

\* `Self::is_windows_drive(path) && Self::can_use_mft(path)`
Eligible(root) == root.is_drive /\ root.can_open

\* index_path with the existence check left out
PathExists_Always(root) == TRUE

\* path_obj.exists()
PathExists(root) == root.exists

\* the head of `for (idx, path) in paths`: Ok(total_count) after the last
\* root; else index_path picks the MFT scan for an openable drive and the
\* walk for anything else
NextRoot(r) ==
    /\ pc[r] = "next_root"
    /\ IF loc[r].idx > Len(loc[r].paths)
       THEN Goto(r, "emit_completed")
       ELSE LET root == loc[r].paths[loc[r].idx]
            IN  Goto(r, IF Eligible(root) THEN "mft_open" ELSE "walk_start")
    /\ UNCHANGED << db, ret, lock, loc, events, faults, req, dev >>

\* the walk of a root: Err when the path does not exist
WalkStart(r) ==
    /\ pc[r] = "walk_start"
    /\ LET root == loc[r].paths[loc[r].idx]
       IN  IF ~PathExists(root)
           THEN /\ Goto(r, "emit_error")
                /\ UNCHANGED loc
           ELSE /\ Goto(r, "walk")
                /\ loc' = [loc EXCEPT ![r].mode = "walk",
                                      ![r].todo = WalkerEntries(root, loc[r].patterns),
                                      ![r].batch_buffer = << >>,
                                      ![r].processed = 0, ![r].persisted = 0,
                                      ![r].flushed = 0]
    /\ UNCHANGED << db, ret, lock, events, faults, req, dev >>

\* one iteration of `for result in walker`, or the end of the loop (the
\* final flush_batch)
Walk(r) ==
    /\ pc[r] = "walk"
    /\ IF loc[r].todo = << >>
       THEN /\ Goto(r, "flush")
            /\ loc' = [loc EXCEPT ![r].cont = "root_done"]
            /\ UNCHANGED events
       ELSE LET rec == WalkRecord(Head(loc[r].todo))
            IN  IF IsSome(rec)
                THEN LET buf == Append(loc[r].batch_buffer, Unwrap(rec))
                         full == Len(buf) >= BATCH_SIZE
                     IN  /\ loc' = [loc EXCEPT ![r].todo = Tail(@),
                                               ![r].batch_buffer = buf,
                                               ![r].produced = Append(@, Unwrap(rec)),
                                               ![r].processed = @ + 1,
                                               ![r].cont = IF full THEN "walk" ELSE @]
                         /\ Emit(r, Progress(loc[r].processed + 1))
                         /\ Goto(r, IF full THEN "flush" ELSE "walk")
                ELSE /\ loc' = [loc EXCEPT ![r].todo = Tail(@)]
                     /\ UNCHANGED << events, pc >>
    /\ UNCHANGED << db, ret, lock, faults, req, dev >>

\* ---- MftIndexer::index_drive ----

\* File::open of the device and the boot sector read; an error returns Err,
\* and index_path falls back to the walk
MftOpen(r) ==
    /\ pc[r] = "mft_open"
    /\ LET root == loc[r].paths[loc[r].idx]
       IN  IF root.boot_ok
           THEN /\ Goto(r, "mft_scan")
                /\ loc' = [loc EXCEPT ![r].mode = "mft", ![r].todo = root.records,
                                      ![r].scanned = 0, ![r].batch_buffer = << >>,
                                      ![r].files_found = 0, ![r].flushed = 0]
           ELSE /\ Goto(r, "walk_start")
                /\ loc' = [loc EXCEPT ![r].mft_err = TRUE]
    /\ UNCHANGED << db, ret, lock, events, faults, req, dev >>

\* one iteration of `for i in 0..max_scan`, or the end of the loop (the
\* final flush_batch)
MftScan(r) ==
    /\ pc[r] = "mft_scan"
    /\ IF loc[r].todo = << >> \/ loc[r].scanned >= max_scan
       THEN /\ Goto(r, "flush")
            /\ loc' = [loc EXCEPT ![r].cont = "root_done"]
            /\ UNCHANGED events
       ELSE LET o == scan_record(Head(loc[r].todo))
            IN  CASE o.kind = "skip" ->
                       /\ loc' = [loc EXCEPT ![r].todo = Tail(@), ![r].scanned = @ + 1]
                       /\ UNCHANGED << events, pc >>
                  [] o.kind = "emit" ->
                       LET buf == Append(loc[r].batch_buffer, Unwrap(o.file))
                           full == Len(buf) >= BATCH_SIZE
                       IN  /\ loc' = [loc EXCEPT ![r].todo = Tail(@),
                                                 ![r].scanned = @ + 1,
                                                 ![r].batch_buffer = buf,
                                                 ![r].produced = Append(@, Unwrap(o.file)),
                                                 ![r].files_found = @ + 1,
                                                 ![r].cont = IF full THEN "mft_scan" ELSE @]
                           /\ Emit(r, Progress(loc[r].files_found + 1))
                           /\ Goto(r, IF full THEN "flush" ELSE "mft_scan")
                  [] o.kind = "err" ->
                       /\ Goto(r, "walk_start")
                       /\ loc' = [loc EXCEPT ![r].mft_err = TRUE]
                       /\ UNCHANGED events
                  [] o.kind = "panic" ->
                       /\ Goto(r, "panicked")
                       /\ UNCHANGED << loc, events >>
    /\ UNCHANGED << db, ret, lock, faults, req, dev >>

\* ---- flush_batch (the closure of index_path, MftIndexer::flush_batch) ----

\* the caller with the value flush_batch returned dropped by the walker too
AfterFlush_Dropped(l, count) ==
    [l EXCEPT !.batch_buffer = << >>,
              !.flushed = @ + count,
              !.flush.result = count]

\* what the caller does with the value flush_batch returned: the walker adds
\* it to persisted, index_drive drops it; the loop then goes on
AfterFlush(l, count) ==
    [l EXCEPT !.batch_buffer = << >>,
              !.persisted = IF l.mode = "walk" THEN @ + count ELSE @,
              !.flushed = @ + count,
              !.flush.result = count]

\* `if batch.is_empty() { return Ok(0); }`: the store is not locked
FlushEmpty(r) ==
    /\ pc[r] = "flush"
    /\ loc[r].batch_buffer = << >>
    /\ loc' = [loc EXCEPT ![r] = AfterFlush(@, 0)]
    /\ Goto(r, loc[r].cont)
    /\ UNCHANGED << db, ret, lock, events, faults, req, dev >>

\* self.db.lock(): the guard lives until flush_batch returns
FlushLock(r) ==
    /\ pc[r] = "flush"
    /\ loc[r].batch_buffer # << >>
    /\ CanLock(r)
    /\ lock' = r
    /\ loc' = [loc EXCEPT ![r].flush =
                  [pre |-> db, batch |-> loc[r].batch_buffer, bulk_ok |-> TRUE,
                   row_ok |-> << >>, k |-> 1, ok_count |-> 0, result |-> 0,
                   calls |-> @.calls]]
    /\ Goto(r, "flush_bulk")
    /\ UNCHANGED << db, ret, events, faults, req, dev >>

\* db_guard.upsert_batch(batch.as_slice()): Ok leads to the return of
\* batch_len, Err to the item-by-item fallback
FlushBulk(r) ==
    /\ pc[r] = "flush_bulk"
    /\ \E failAt \in 0 .. (Len(loc[r].batch_buffer) + 1) :
          /\ failAt # 0 => faults < MaxFaults
          /\ LET res == upsert_batch(db, loc[r].batch_buffer, failAt)
             IN  /\ db' = res.db
                 /\ faults' = IF failAt # 0 THEN faults + 1 ELSE faults
                 /\ loc' = [loc EXCEPT ![r].flush.bulk_ok = res.ok,
                                       ![r].flush.ok_count =
                                           IF res.ok THEN Len(loc[r].batch_buffer) ELSE 0]
                 /\ Goto(r, IF res.ok THEN "flush_ret" ELSE "flush_rows")
    /\ UNCHANGED << ret, lock, events, req, dev >>

\* the fallback counter with the Err arm counted as well
CountOk_Always(ok_count, ok) == ok_count + 1

\* `if let Err(..) = upsert_file(..) { warn } else { ok_count += 1 }`
CountOk(ok_count, ok) == IF ok THEN ok_count + 1 ELSE ok_count

\* one iteration of `for r in batch.iter()`: upsert_file, counted when Ok,
\* logged and skipped when Err
FlushRow(r) ==
    /\ pc[r] = "flush_rows"
    /\ \E fault \in BOOLEAN :
          /\ fault => faults < MaxFaults
          /\ LET k == loc[r].flush.k
                 res == upsert_file(db, loc[r].batch_buffer[k], fault)
             IN  /\ db' = res.db
                 /\ faults' = IF fault THEN faults + 1 ELSE faults
                 /\ loc' = [loc EXCEPT ![r].flush.k = k + 1,
                                       ![r].flush.row_ok = Append(@, res.ok),
                                       ![r].flush.ok_count = CountOk(@, res.ok)]
                 /\ Goto(r, IF k >= Len(loc[r].batch_buffer) THEN "flush_ret"
                            ELSE "flush_rows")
    /\ UNCHANGED << ret, lock, events, req, dev >>

\* batch.clear() and the return of the count; the guard is dropped
FlushReturn(r) ==
    /\ pc[r] = "flush_ret"
    /\ lock' = Free
    /\ loc' = [loc EXCEPT ![r] = [AfterFlush(@, loc[r].flush.ok_count)
                                     EXCEPT !.flush.calls = @ + 1]]
    /\ Goto(r, loc[r].cont)
    /\ UNCHANGED << db, ret, events, faults, req, dev >>

\* index_path returns Ok(persisted), index_drive Ok(files_found);
\* index_multiple_paths adds the count and goes to the next root
RootDone(r) ==
    /\ pc[r] = "root_done"
    /\ loc' = [loc EXCEPT ![r].total_count =
                              @ + (IF loc[r].mode = "walk" THEN loc[r].persisted
                                   ELSE loc[r].files_found),
                          ![r].written = @ + loc[r].flushed,
                          ![r].mft_err = FALSE,
                          ![r].idx = @ + 1]
    /\ Goto(r, "next_root")
    /\ UNCHANGED << db, ret, lock, events, faults, req, dev >>

\* Ok(count) => app.emit("indexing-completed", count)
EmitCompleted(r) ==
    /\ pc[r] = "emit_completed"
    /\ Emit(r, Event("indexing-completed", loc[r].total_count))
    /\ Goto(r, "done")
    /\ UNCHANGED << db, ret, lock, loc, faults, req, dev >>

\* Err(e) => app.emit("indexing-error", e.to_string())
EmitError(r) ==
    /\ pc[r] = "emit_error"
    /\ Emit(r, Event("indexing-error", "Path does not exist"))
    /\ Goto(r, "done")
    /\ UNCHANGED << db, ret, lock, loc, faults, req, dev >>

\* ---- the search_files and get_indexing_status commands ----

\* a request arrives; an empty query is answered at once
SearchCall ==
    /\ pc["search"] = "idle"
    /\ \E query \in AppQueries :
          LET filters == SearchFilters(None, None, None, None, None)
              limit == WordMod - 1
          IN  IF IsEmptyQuery(query)
              THEN /\ ret' = [NoCall EXCEPT !.op = "search_files",
                                            !.holder = lock,
                                            !.out = search_files(EmptyDb, query, filters, 1, limit)]
                   /\ Goto("search", "search_done")
                   /\ UNCHANGED req
              ELSE /\ req' = [query |-> query, filters |-> filters, limit |-> limit]
                   /\ Goto("search", "search_lock")
                   /\ UNCHANGED ret
    /\ UNCHANGED << db, lock, loc, events, faults, dev >>

\* db.lock()
SearchLock ==
    /\ pc["search"] = "search_lock"
    /\ CanLock("search")
    /\ lock' = "search"
    /\ Goto("search", "search_query")
    /\ UNCHANGED << db, ret, loc, events, faults, req, dev >>

\* db_guard.search_files(...), the shaping of the result, the guard dropped
SearchQuery ==
    /\ pc["search"] = "search_query"
    /\ ret' = [NoCall EXCEPT !.op = "search_files", !.pre = db,
                             !.filters = req.filters, !.holder = lock,
                             !.out = search_files(db, req.query, req.filters, 1,
                                                  req.limit)]
    /\ lock' = Free
    /\ Goto("search", "search_done")
    /\ UNCHANGED << db, loc, events, faults, req, dev >>

\* the shell takes the SearchResults
SearchReturn ==
    /\ pc["search"] = "search_done"
    /\ ret' = NoCall
    /\ req' = NoRequest
    /\ Goto("search", "idle")
    /\ UNCHANGED << db, lock, loc, events, faults, dev >>

StatusCall ==
    /\ pc["status"] = "idle"
    /\ Goto("status", "status_lock")
    /\ UNCHANGED << db, ret, lock, loc, events, faults, req, dev >>

\* db.lock()
StatusLock ==
    /\ pc["status"] = "status_lock"
    /\ CanLock("status")
    /\ lock' = "status"
    /\ Goto("status", "status_read")
    /\ UNCHANGED << db, ret, loc, events, faults, req, dev >>

\* get_file_count, get_database_size and get_last_indexed_time are read and
\* the IndexingStatus goes to the shell; the guard is dropped
StatusRead ==
    /\ pc["status"] = "status_read"
    /\ lock' = Free
    /\ Goto("status", "idle")
    /\ UNCHANGED << db, ret, loc, events, faults, req, dev >>

AppNext ==
    \/ AutoLock \/ AutoCount \/ ReindexPath
    \/ \E r \in Runs :
          \/ NextRoot(r) \/ WalkStart(r) \/ Walk(r) \/ MftOpen(r) \/ MftScan(r)
          \/ FlushEmpty(r) \/ FlushLock(r) \/ FlushBulk(r) \/ FlushRow(r)
          \/ FlushReturn(r) \/ RootDone(r) \/ EmitCompleted(r) \/ EmitError(r)
    \/ SearchCall \/ SearchLock \/ SearchQuery \/ SearchReturn
    \/ StatusCall \/ StatusLock \/ StatusRead

AppSpec == AppInit /\ [][AppNext]_vars

\* ---- the application under a fair lock and a fair scheduler ----

\* the roots of the reindex run that requests are served against: a drive of
\* two records that the MFT scan indexes, then a path that does not exist
FairPaths ==
    {<< DriveRoot(TRUE, << GoodRecord(NameLower, FALSE, 1),
                           GoodRecord(NameUpper, TRUE, 0) >>), MissingRoot >>}

\* run(), with reindex_path called on these roots
AppFairInit ==
    /\ db = EmptyDb
    /\ ret = NoCall
    /\ lock = Free
    /\ pc = [p \in Procs |-> IF p = "auto" THEN "auto_lock" ELSE "idle"]
    /\ \E pa \in DefaultPaths, pr \in FairPaths, ex \in ReindexExcludes :
          loc = [r \in Runs |->
                    IF r = "auto" THEN IdleRun(pa, get_default_exclude_patterns)
                    ELSE IdleRun(pr, ExcludePatterns(ex))]
    /\ events = [r \in Runs |-> << >>]
    /\ faults = 0
    /\ req = NoRequest
    /\ scan = NoScan
    /\ sr = NoReader
    /\ walk = NoWalk

\* the step of search_files from the query to the return, as the program
\* counter shows it: under AppNext only SearchQuery takes it
SearchQueryReturns ==
    /\ pc["search"] = "search_query"
    /\ pc' = [pc EXCEPT !["search"] = "search_done"]

\* a thread that holds the guard goes on to the end of the guard's scope
\* (flush_batch, the count of the startup thread, search_files,
\* get_indexing_status); a fair lock grants a request that finds the lock
\* free again and again
AppFairness ==
    /\ WF_vars(AutoCount)
    /\ \A r \in Runs : WF_vars(FlushBulk(r) \/ FlushRow(r) \/ FlushReturn(r))
    /\ WF_pc(SearchQueryReturns)
    /\ WF_vars(StatusRead)
    /\ SF_vars(SearchLock)
    /\ SF_vars(StatusLock)

AppFairSpec == AppFairInit /\ [][AppNext]_vars /\ AppFairness


(***************************************************************************)
(* MftIndexer::index_drive on one volume, record by record as bytes        *)
(* (ScanSpec).  The scan runs alone: no other user of the store, no write  *)
(* fault.                                                                  *)
(***************************************************************************)
\* the scan as it enters the loop: the device is open and the boot sector
\* parsed
ScanStart(volume) ==
    [NoScan EXCEPT !.pc = "scan", !.bytes_per_sector = volume.bytes_per_sector,
                   !.image = volume.records, !.todo = volume.records]

ScanInit ==
    /\ db = EmptyDb
    /\ ret = NoCall
    /\ AppOff
    /\ sr = NoReader
    /\ walk = NoWalk
    /\ \E volume \in Volumes : scan = ScanStart(volume)

\* self.flush_batch(&mut batch_buffer): the store after it
Flushed(d, batch) == upsert_batch(d, batch, 0).db

\* one iteration of `for i in 0..max_scan`: read_exact fills the buffer
\* with the next record; on "emit" the record is pushed and counted and
\* the batch flushed when full; a `?` ends index_drive with Err, a panic
\* unwinds it
ScanRecord ==
    /\ scan.pc = "scan"
    /\ scan.todo # << >> /\ scan.i < max_scan
    /\ LET rec == Head(scan.todo)
           buffer == Encode(rec)
           fix == IF Slice(buffer, 0, 4) = FILE
                  THEN apply_fixups(buffer, scan.bytes_per_sector)
                  ELSE Fixed("none", buffer)
           o == scan_buffer(buffer, scan.bytes_per_sector)
           cur == [rec |-> rec, buffer |-> buffer, fix |-> fix, out |-> o]
           next == [scan EXCEPT !.todo = Tail(@), !.i = @ + 1, !.cur = << cur >>]
       IN  CASE o.kind = "skip" ->
                  /\ scan' = next
                  /\ UNCHANGED db
             [] o.kind = "emit" ->
                  LET buf == Append(scan.batch_buffer, Unwrap(o.file))
                      full == Len(buf) >= BATCH_SIZE
                  IN  /\ scan' = [next EXCEPT !.batch_buffer = IF full THEN << >> ELSE buf,
                                              !.files_found = @ + 1,
                                              !.emitted = Append(@, Unwrap(o.file))]
                      /\ db' = IF full THEN Flushed(db, buf) ELSE db
             [] o.kind = "err" ->
                  /\ scan' = [next EXCEPT !.pc = "returned_err"]
                  /\ UNCHANGED db
             [] o.kind = "panic" ->
                  /\ scan' = [next EXCEPT !.pc = "panicked"]
                  /\ UNCHANGED db
    /\ UNCHANGED << ret, app, sr, walk >>

\* the end of the loop (read_exact fails at the end of the volume, or
\* max_scan records were read): the residual batch is flushed and
\* Ok(files_found) returned
ScanEnd ==
    /\ scan.pc = "scan"
    /\ scan.todo = << >> \/ scan.i >= max_scan
    /\ scan' = [scan EXCEPT !.pc = "returned_ok", !.batch_buffer = << >>]
    /\ db' = Flushed(db, scan.batch_buffer)
    /\ UNCHANGED << ret, app, sr, walk >>

ScanNext == ScanRecord \/ ScanEnd

ScanSpec == ScanInit /\ [][ScanNext]_vars

(***************************************************************************)
(* A SectorReader in use: seeks and reads in any order (ReaderSpec).       *)
(***************************************************************************)
ReaderInit ==
    /\ db = EmptyDb
    /\ ret = NoCall
    /\ AppOff
    /\ scan = NoScan
    /\ walk = NoWalk
    /\ \E inner \in Sources, sector_size \in SectorSizes :
          sr = [NoReader EXCEPT !.state = "open",
                                !.reader = SectorReader_new(inner, sector_size)]

\* reader.seek(pos)
ReaderSeek ==
    /\ sr.state = "open"
    /\ \E pos \in Seeks :
          /\ Target(sr.reader, pos) \in 0 .. (MaxSource + 2)
          /\ sr' = [sr EXCEPT !.reader = SectorReader_seek(sr.reader, pos),
                              !.last = [op |-> "seek", pre |-> sr.reader, n |-> 0,
                                        bytes |-> << >>],
                              !.start = Target(sr.reader, pos),
                              !.total = << >>]
    /\ UNCHANGED << db, ret, app, scan, walk >>

\* reader.read(buf) with a buf of n bytes
ReaderRead ==
    /\ sr.state = "open"
    /\ \E n \in 0 .. MaxRead :
          LET res == SectorReader_read(sr.reader, n, FALSE)
          IN  sr' = [sr EXCEPT !.state = IF res.kind = "hang" THEN "hung" ELSE "open",
                               !.reader = res.reader,
                               !.last = [op |-> "read", pre |-> sr.reader, n |-> n,
                                         bytes |-> res.bytes],
                               !.total = @ \o res.bytes]
    /\ UNCHANGED << db, ret, app, scan, walk >>

\* `if reader.read_exact(&mut buffer).is_err() { break; }` with a buffer of
\* n bytes: kind "ok" fills the buffer, "eof" is the Err that ends the scan
\* loop
ReaderReadExact ==
    /\ sr.state = "open"
    /\ \E n \in 1 .. MaxRead :
          LET res == read_exact(sr.reader, n, << >>)
          IN  sr' = [sr EXCEPT !.state = IF res.kind = "hang" THEN "hung" ELSE "open",
                               !.reader = res.reader,
                               !.last = [op |-> "read_exact_" \o res.kind,
                                         pre |-> sr.reader, n |-> n,
                                         bytes |-> res.bytes],
                               !.total = @ \o res.bytes]
    /\ UNCHANGED << db, ret, app, scan, walk >>

ReaderNext == ReaderSeek \/ ReaderRead \/ ReaderReadExact

ReaderSpec == ReaderInit /\ [][ReaderNext]_vars

(***************************************************************************)
(* The attribute loop of index_drive on one record, iteration by iteration *)
(* (WalkSpec).                                                             *)
(***************************************************************************)
\* the record has passed the magic test and apply_fixups; the cursor is at
\* first_attr_offset, filename and file_size are None, is_dir is false
WalkInit ==
    /\ db = EmptyDb
    /\ ret = NoCall
    /\ AppOff
    /\ scan = NoScan
    /\ sr = NoReader
    /\ \E attrs \in AttrLists :
          LET buffer == WalkBuffer(attrs)
          IN  walk = [NoWalk EXCEPT !.state = "walking", !.attrs = attrs,
                                    !.buffer = buffer,
                                    !.pos = LE(Slice(buffer, 20, 2))]

\* one iteration of `loop { ... }`
WalkStep ==
    /\ walk.state = "walking"
    /\ LET it == AttributeStep(walk.buffer, walk.pos, walk.d)
       IN  walk' = [walk EXCEPT
                       !.state = CASE it.kind = "next" -> "walking"
                                   [] it.kind = "break" -> "done"
                                   [] it.kind = "err" -> "err",
                       !.pos = it.pos,
                       !.d = it.d,
                       !.read = IF it.read THEN @ \cup {walk.pos} ELSE @,
                       !.decoded = IF it.decoded THEN @ \cup {walk.pos} ELSE @]
    /\ UNCHANGED << db, ret, app, scan, sr >>

\* after the loop: the record is pushed when it is in use and has a
\* non-empty name
WalkEnd ==
    /\ walk.state = "done"
    /\ walk' = [walk EXCEPT !.state =
                   IF ShouldEmit(LE(Slice(walk.buffer, 22, 2)) % 2 = 1, walk.d.filename)
                   THEN "emit" ELSE "skip"]
    /\ UNCHANGED << db, ret, app, scan, sr >>

WalkNext == WalkStep \/ WalkEnd

\* the loop is not suspended: an iteration that can be made is made
WalkSpec == WalkInit /\ [][WalkNext]_vars /\ WF_vars(WalkNext)


(***************************************************************************)
(* Properties of the application (AppSpec).                                *)
(***************************************************************************)
\* run r is inside flush_batch, between taking the lock and returning
MidFlush(r) == pc[r] \in {"flush_bulk", "flush_rows", "flush_ret"}

\* record k of the batch of the current or last flush of r was written by it
Written(f, k) == f.bulk_ok \/ (k <= Len(f.row_ok) /\ f.row_ok[k])

\* no later written record of the batch has the path of record k
LastWritten(f, k) ==
    \A j \in (k + 1) .. Len(f.batch) :
        Written(f, j) => f.batch[j].path # f.batch[k].path

\* C3: a search never observes a torn batch.  Whenever the search command
\* reads the store, every flush that is in progress has written nothing yet
\* (the store is what it was when the flush took the lock), so the result is
\* computed over a store that holds none or all of the rows of each batch.
C3_NoTornBatch ==
    pc["search"] = "search_query" =>
        \A r \in Runs : MidFlush(r) => db = loc[r].flush.pre

\* C3 witness: the search reads the store between two batches of a run: the
\* first batch is committed and in the store, the second is waiting for the
\* lock the search holds
C3_Witness ==
    /\ pc["search"] = "search_query"
    /\ \E r \in Runs :
          /\ pc[r] = "flush" /\ loc[r].batch_buffer # << >>
          /\ loc[r].flush.calls = 1 /\ loc[r].flush.bulk_ok
          /\ Len(loc[r].flush.batch) = BATCH_SIZE
          /\ \A k \in 1 .. Len(loc[r].flush.batch) :
                \E row \in db.rows : RecordOf(row) = loc[r].flush.batch[k]

\* process p is executing an operation of the store
InStore(p) ==
    pc[p] \in {"auto_count", "flush_bulk", "flush_rows", "flush_ret",
               "search_query", "status_read"}

\* C4: at most one of the searches, status queries and indexing runs is
\* executing a store operation at any time, and it is the holder of the
\* lock; a flush is the holder from its bulk attempt through its per-row
\* fallback to its return.
C4_StoreSerialized ==
    /\ \A p, q \in Procs : (InStore(p) /\ InStore(q)) => p = q
    /\ \A p \in Procs : InStore(p) => lock = p
    /\ \A r \in Runs : MidFlush(r) => lock = r

\* C4 witness: a run is in the middle of its per-row fallback while the
\* other run, a search and a status query all wait for the lock
C4_Witness ==
    \E r, o \in Runs :
        /\ r # o
        /\ pc[r] = "flush_rows" /\ loc[r].flush.k > 1 /\ lock = r
        /\ pc[o] = "flush" /\ loc[o].batch_buffer # << >>
        /\ pc["search"] = "search_lock"
        /\ pc["status"] = "status_lock"

\* the number of individual upserts of the fallback that succeeded
RECURSIVE Successes(_)
Successes(row_ok) ==
    IF row_ok = << >> THEN 0
    ELSE (IF Head(row_ok) THEN 1 ELSE 0) + Successes(Tail(row_ok))

\* the fallback of run r has retried its whole batch and is about to return
FallbackDone(r) == pc[r] = "flush_ret" /\ ~loc[r].flush.bulk_ok

\* C5: when the bulk upsert of a batch of n records fails, every record is
\* retried individually, in order; the store then holds every record whose
\* individual upsert succeeded (unless a later successful record of the
\* batch has the same path and replaced it), and holds what it held before
\* for the paths none of them wrote; the flush returns the number of
\* successes; a flush leaves the batch buffer empty whether the bulk upsert
\* succeeded or failed, and the run goes on where it called the flush
\* instead of ending in an error.
C5_FlushFallback ==
    /\ [](\A r \in Runs :
            FallbackDone(r) =>
                LET f == loc[r].flush
                IN  /\ Len(f.row_ok) = Len(loc[r].batch_buffer)
                    /\ f.batch = loc[r].batch_buffer
                    /\ f.ok_count = Successes(f.row_ok)
                    /\ \A k \in 1 .. Len(f.batch) :
                          (f.row_ok[k] /\ LastWritten(f, k)) =>
                              \E row \in db.rows : RecordOf(row) = f.batch[k]
                    /\ \A row \in f.pre.rows :
                          (\A k \in 1 .. Len(f.batch) :
                              f.row_ok[k] => f.batch[k].path # row.path)
                          => row \in db.rows)
    /\ [][\A r \in Runs :
            (pc[r] = "flush_ret" /\ pc'[r] # "flush_ret") =>
                /\ loc'[r].batch_buffer = << >>
                /\ loc'[r].flush.result =
                      (IF loc[r].flush.bulk_ok THEN Len(loc[r].batch_buffer)
                       ELSE Successes(loc[r].flush.row_ok))
                /\ pc'[r] = loc[r].cont
                /\ pc'[r] \in {"walk", "mft_scan", "root_done"}]_vars

\* C5 witness: the bulk upsert of a full batch failed, the fallback retried
\* every record and exactly one of them failed: n - 1 successes
C5_Witness ==
    \E r \in Runs :
        /\ FallbackDone(r)
        /\ Len(loc[r].flush.batch) = BATCH_SIZE
        /\ Successes(loc[r].flush.row_ok) = BATCH_SIZE - 1
        /\ loc[r].flush.ok_count = BATCH_SIZE - 1
        /\ Cardinality(db.rows) = Cardinality(loc[r].flush.pre.rows) + BATCH_SIZE - 1

IsTerminal(e) == e.kind \in {"indexing-completed", "indexing-error"}

\* the positions of the terminal events among the events of run r
Terminals(r) == {i \in 1 .. Len(events[r]) : IsTerminal(events[r][i])}

\* the task of run r has ended: it returned, or it unwound on a panic
Ended(r) == pc[r] \in {"done", "panicked"}

\* C6: every indexing run emits exactly one terminal event, completed or
\* error and never both, and none of its events follows it: a run never has
\* two terminal events, a terminal event is the last event of its run, and
\* a run whose task has ended has emitted its terminal event.
C6_OneTerminalEvent ==
    \A r \in Runs :
        /\ Cardinality(Terminals(r)) <= 1
        /\ \A i \in Terminals(r) : i = Len(events[r])
        /\ Ended(r) => Terminals(r) # {}

\* C13: empty-query contract.  A search with an empty query returns an empty
\* result list with total = 0 and does not touch the store: it is never at
\* the lock or at the query, and it does not hold the lock as it returns
\* (so it returns whoever holds the lock).
C13_EmptyQuery ==
    /\ pc["search"] \in {"search_lock", "search_query"} => req.query # << >>
    /\ (pc["search"] = "search_done" /\ ret.out.query = << >>) =>
            /\ ret.out.results = << >>
            /\ ret.out.total = 0
            /\ ret.holder # "search"

\* C13 witness: the empty query was answered while a run was in the middle
\* of the per-row fallback of a flush, holding the lock
C13_Witness ==
    /\ pc["search"] = "search_done"
    /\ ret.op = "search_files" /\ ret.out.query = << >>
    /\ ret.out.results = << >> /\ ret.out.total = 0
    /\ \E r \in Runs :
          /\ ret.holder = r /\ lock = r
          /\ pc[r] = "flush_rows" /\ loc[r].flush.k > 1

\* the directory invariant of FileRecord
DirectoryShape(f) == f.is_dir => (f.extension = None /\ f.file_size = None)

\* C16: directory invariant.  Every record with is_dir = true that the
\* walker or the MFT scan has produced, and every directory row of the
\* store, has extension = None and file_size = None.
C16_DirectoryInvariant ==
    /\ \A r \in Runs :
          \A k \in 1 .. Len(loc[r].batch_buffer) :
              DirectoryShape(loc[r].batch_buffer[k])
    /\ \A row \in db.rows : DirectoryShape(row)

\* C17: exclusion.  No record the walker has emitted has a path that
\* contains one of the exclusion patterns of the run, whichever pattern of
\* the list it is.
C17_Exclusion ==
    \A r \in Runs :
        loc[r].mode = "walk" =>
            \A k \in 1 .. Len(loc[r].batch_buffer) :
                \A i \in 1 .. Len(loc[r].patterns) :
                    ~Contains(loc[r].batch_buffer[k].path, loc[r].patterns[i])

\* no run other than r has written to the store or is about to
NoOtherWriter(r) ==
    \A o \in Runs \ {r} : loc[o].flush.calls = 0 /\ ~MidFlush(o)

\* the paths of the rows of the store
PathsOf(d) == {row.path : row \in d.rows}

\* the paths of the records a walk of the root emits
WalkedPaths(root, patterns) ==
    LET es == WalkerEntries(root, patterns)
    IN  {es[k].path : k \in {j \in 1 .. Len(es) : IsSome(WalkRecord(es[j]))}}

\* run r has just walked root number n of its list, with every write
\* succeeding and no other run writing
WalkedAlone(r, n) ==
    /\ pc[r] = "root_done" /\ loc[r].mode = "walk" /\ loc[r].idx = n
    /\ faults = 0 /\ NoOtherWriter(r)

\* C18: reindex idempotence.  When the walker has run over a tree and runs
\* over the same unchanged tree again with the same patterns, the store
\* holds after the second run exactly the paths, and as many rows, as after
\* the first: the paths the walk of the tree emits.
C18_ReindexIdempotent ==
    \A r \in Runs :
        \A n \in {1, 2} :
            (/\ WalkedAlone(r, n)
             /\ Len(loc[r].paths) >= 2 /\ loc[r].paths[1] = loc[r].paths[2]) =>
                /\ PathsOf(db) = WalkedPaths(loc[r].paths[1], loc[r].patterns)
                /\ get_file_count(db)
                       = Cardinality(WalkedPaths(loc[r].paths[1], loc[r].patterns))

\* C18 witness: the second walk of the tree is done and has replaced every
\* row the first walk wrote
C18_Witness ==
    \E r \in Runs :
        /\ WalkedAlone(r, 2)
        /\ loc[r].paths[1] = loc[r].paths[2]
        /\ get_file_count(db) >= 2
        /\ db.seq = 2 * get_file_count(db)
        /\ \A row \in db.rows : row.id > get_file_count(db)

\* the root holds regular files only
OnlyFiles(root) ==
    \A k \in 1 .. Len(root.entries) : root.entries[k].file_type = "file"

\* C19: after the walker has indexed, into an empty store, a root that
\* contains N files, get_file_count() returns N.
C19_CountAfterWalk ==
    \A r \in Runs :
        (WalkedAlone(r, 1) /\ OnlyFiles(loc[r].paths[1])) =>
            get_file_count(db) = Len(loc[r].paths[1].entries)

\* C20: the payload of indexing-completed is the number of records
\* persisted: the sum, over the roots of the run, of what the flushes of
\* the root wrote to the store (for a root that fell back from the MFT scan
\* to the walker, the flushes of the walker).
C20_CompletedPayload ==
    \A r \in Runs :
        \A i \in 1 .. Len(events[r]) :
            events[r][i].kind = "indexing-completed" =>
                events[r][i].payload = loc[r].written

\* the positions at which run r produced a record of path p
ProducedAt(r, p) ==
    {k \in 1 .. Len(loc[r].produced) : loc[r].produced[k].path = p}

\* the record run r produced last for path p
LastProduced(r, p) ==
    loc[r].produced[CHOOSE k \in ProducedAt(r, p) :
                        \A j \in ProducedAt(r, p) : j <= k]

\* the paths run r produced more than once
ProducedTwice(r) ==
    {loc[r].produced[k].path :
        k \in {j \in 1 .. Len(loc[r].produced) :
                  Cardinality(ProducedAt(r, loc[r].produced[j].path)) >= 2}}

\* C21: commit order.  The batch a run holds, or is flushing, is made of
\* the records it produced last, in the order produced; between two roots
\* no batch is pending, so every flush of a root is over before a record of
\* the next root is produced; and when a run has returned, with every write
\* succeeding and no other run writing, the row of a path it produced more
\* than once is the record it produced last for that path.
C21_CommitOrder ==
    \A r \in Runs :
        LET n == Len(loc[r].produced)
            b == Len(loc[r].batch_buffer)
        IN  /\ b <= n
            /\ loc[r].batch_buffer = SubSeq(loc[r].produced, n - b + 1, n)
            /\ pc[r] \in {"root_done", "next_root", "emit_completed"} =>
                  loc[r].batch_buffer = << >>
            /\ (pc[r] = "done" /\ faults = 0 /\ NoOtherWriter(r)) =>
                  \A p \in ProducedTwice(r) :
                      \E row \in db.rows :
                          row.path = p /\ RecordOf(row) = LastProduced(r, p)

\* run r is at a root that does not exist (and is not an openable drive)
AtMissing(r) ==
    /\ loc[r].idx <= Len(loc[r].paths)
    /\ ~loc[r].paths[loc[r].idx].exists
    /\ ~(loc[r].paths[loc[r].idx].is_drive /\ loc[r].paths[loc[r].idx].can_open)

\* the number of progress events run r has emitted
ProgressCount(r) ==
    Cardinality({i \in 1 .. Len(events[r]) :
                    events[r][i].kind = "indexing-progress"})

\* C22: hard-error short-circuit.  A run that has come to a root that does
\* not exist never walks or flushes for it and never leaves it for a later
\* root: it goes to the error, which is the event it ends with; from the
\* moment it is at that root its locals (the root index, the counters, the batch)
\* stay as they are, it emits nothing but the error and its steps do not
\* write to the store; the progress events it has emitted are those of the
\* records of the roots before.
C22_HardErrorShortCircuit ==
    /\ [](\A r \in Runs :
            AtMissing(r) =>
                /\ pc[r] \in {"next_root", "walk_start", "emit_error", "done"}
                /\ loc[r].batch_buffer = << >>
                /\ ProgressCount(r) = Len(loc[r].produced)
                /\ pc[r] = "done" =>
                      /\ events[r] # << >>
                      /\ events[r][Len(events[r])].kind = "indexing-error")
    /\ [][\A r \in Runs :
            AtMissing(r) =>
                /\ loc'[r] = loc[r]
                /\ pc'[r] # pc[r] => db' = db
                /\ \/ events'[r] = events[r]
                   \/ /\ pc[r] = "emit_error"
                      /\ Len(events'[r]) = Len(events[r]) + 1
                      /\ events'[r][Len(events'[r])].kind = "indexing-error"]_vars

\* C22 witness: the run ended in the error at its second root, with the rows of the first root
\* written and a third root never started
C22_Witness ==
    \E r \in Runs :
        /\ pc[r] = "done" /\ AtMissing(r)
        /\ loc[r].idx = 2 /\ Len(loc[r].paths) = 3
        /\ loc[r].written > 0
        /\ \E row \in db.rows : row.path = PathOf(NameOther)
        /\ events[r][Len(events[r])].kind = "indexing-error"

\* the root run r is at is a drive whose raw device opens
AtEligible(r) ==
    /\ loc[r].paths[loc[r].idx].is_drive
    /\ loc[r].paths[loc[r].idx].can_open

InFlush(r) == pc[r] \in {"flush", "flush_bulk", "flush_rows", "flush_ret"}

\* the walker is running, or has run, on the root run r is at
WalkerRuns(r) ==
    pc[r] = "walk" \/ ((InFlush(r) \/ pc[r] = "root_done") /\ loc[r].mode = "walk")

\* the MFT scan is running, or has returned Ok, on the root run r is at
MftRuns(r) ==
    \/ pc[r] \in {"mft_open", "mft_scan", "panicked"}
    \/ (InFlush(r) \/ pc[r] = "root_done") /\ loc[r].mode = "mft"

\* C23: strategy selection and fallback.  For the root a run is at: the
\* walker runs only if the root is not MFT-eligible or the MFT scan has
\* returned an error; the MFT scan runs only on an eligible root, and where
\* it returns Ok the walker is not run; when the MFT scan returns an error
\* the next thing the run does is the walk of the same root, and what
\* index_path then returns is what the walker persisted.
C23_StrategyAndFallback ==
    /\ [](\A r \in Runs :
            loc[r].idx <= Len(loc[r].paths) =>
                /\ WalkerRuns(r) => (~AtEligible(r) \/ loc[r].mft_err)
                /\ MftRuns(r) => (AtEligible(r) /\ ~loc[r].mft_err)
                /\ loc[r].mft_err =>
                      /\ AtEligible(r)
                      /\ pc[r] \in {"walk_start", "emit_error", "done"}
                            \/ WalkerRuns(r))
    /\ [][\A r \in Runs :
            /\ (~loc[r].mft_err /\ loc'[r].mft_err) =>
                  (pc'[r] = "walk_start" /\ loc'[r].idx = loc[r].idx)
            /\ (pc[r] = "root_done" /\ pc'[r] # "root_done"
                    /\ (~AtEligible(r) \/ loc[r].mft_err)) =>
                  loc'[r].total_count = loc[r].total_count + loc[r].persisted]_vars

\* C23 witness: the walker has finished a drive whose MFT scan was opened,
\* parsed the boot sector and then returned an error at a record, and
\* index_path is about to return what the walker persisted
C23_Witness ==
    \E r \in Runs :
        /\ pc[r] = "root_done" /\ loc[r].mode = "walk"
        /\ AtEligible(r) /\ loc[r].mft_err
        /\ loc[r].paths[loc[r].idx].boot_ok
        /\ loc[r].persisted > 0

\* C24: no indexing run removes entries.  Every step that changes the store
\* is a step of the run that holds the lock; it leaves every path of the
\* store in the store, and every row whose path is not the path of a record
\* of the batch being flushed as it was.  (So across a whole run, whether it
\* succeeds, falls back from the MFT scan to the walker or ends in a hard
\* error, the paths of the store before are paths of the store after, and
\* what a flush has committed stays.)
C24_NoRemoval ==
    [][db' # db =>
          /\ PathsOf(db) \subseteq PathsOf(db')
          /\ \E r \in Runs :
                /\ lock = r
                /\ \A row \in db.rows :
                      (\A k \in 1 .. Len(loc[r].batch_buffer) :
                          loc[r].batch_buffer[k].path # row.path) =>
                              row \in db'.rows]_vars

\* C24 witness: the reindex run has ended in a hard error after its first
\* root; the rows of that root are in the store, and so is a row the
\* auto-index wrote before, for a path the reindex run did not produce
C24_Witness ==
    /\ pc["reindex"] = "done" /\ AtMissing("reindex")
    /\ pc["auto"] = "done"
    /\ \E row \in db.rows :
          /\ row.path = PathOf(NameUpper)
          /\ \A k \in 1 .. Len(loc["reindex"].produced) :
                loc["reindex"].produced[k].path # row.path
    /\ \E row \in db.rows : row.path = PathOf(NameOther)

\* the records the producer at work in run r has pushed for the current
\* root, counted on what it has consumed: the entries of the walk that are
\* behind it and give a record, or the MFT records behind it that are emitted
EmittedSoFar(r) ==
    LET root == loc[r].paths[loc[r].idx]
    IN  IF loc[r].mode = "walk"
        THEN LET entries == WalkerEntries(root, loc[r].patterns)
                 k == Len(entries) - Len(loc[r].todo)
             IN  Cardinality({i \in 1 .. k : IsSome(WalkRecord(entries[i]))})
        ELSE Cardinality({i \in 1 .. loc[r].scanned :
                             scan_record(root.records[i]).kind = "emit"})

\* C35: progress events.  A step in which a producer (the walker or the MFT
\* scanner) pushes a record pushes one record and emits exactly one event, a
\* progress event with status "indexing", total_files absent and
\* files_processed the number of records that producer has pushed so far for
\* the current root: one more than before the step, and, when it is not the
\* first, one more than the progress event before it, which is the run's
\* last event.  The event is out before the record is flushed: after the
\* step the record is the last of the batch buffer and the run does not hold
\* the store.  No other step emits a progress event.
C35_ProgressEvents ==
    [][\A r \in Runs :
          IF loc'[r].produced # loc[r].produced
          THEN LET n == Len(events[r])
                   e == events'[r][n + 1]
               IN  /\ Len(loc'[r].produced) = Len(loc[r].produced) + 1
                   /\ Len(events'[r]) = n + 1
                   /\ SubSeq(events'[r], 1, n) = events[r]
                   /\ e.kind = "indexing-progress"
                   /\ e.payload.status = "indexing"
                   /\ e.payload.total_files = None
                   /\ e.payload.files_processed = EmittedSoFar(r)'
                   /\ EmittedSoFar(r)' = EmittedSoFar(r) + 1
                   /\ EmittedSoFar(r) > 0 =>
                         /\ n > 0
                         /\ events[r][n].kind = "indexing-progress"
                         /\ events[r][n].payload.files_processed = EmittedSoFar(r)
                   /\ loc'[r].batch_buffer # << >>
                   /\ loc'[r].batch_buffer[Len(loc'[r].batch_buffer)]
                         = loc'[r].produced[Len(loc'[r].produced)]
                   /\ lock' # r
                   /\ pc'[r] \in {"walk", "mft_scan", "flush"}
          ELSE ProgressCount(r)' = ProgressCount(r)]_vars

\* C35 witness: the auto-index has pushed the third record of its root, after
\* the flush of the first two: its last event is the progress event with
\* files_processed 3 and the record is in the batch buffer
C35_Witness ==
    /\ pc["auto"] = "walk"
    /\ loc["auto"].flush.calls = 1
    /\ Len(loc["auto"].batch_buffer) = 1
    /\ Len(events["auto"]) = 3
    /\ events["auto"][3] = Progress(3)

\* C36: batch bound.  The batch buffer of a producer never holds more than
\* BATCH_SIZE records, and holds BATCH_SIZE records only while it is being
\* flushed (the flush follows the push that filled it, before anything else
\* is consumed); a root is left through a flush, the final one, and no other
\* way; when the producer has returned Ok the buffer is empty, and the
\* count the walker returns is the sum of what the flushes of the root
\* returned, never more than the records pushed, and the number of records
\* pushed when no store write has failed.
C36_BatchBound ==
    /\ [](\A r \in Runs :
            /\ Len(loc[r].batch_buffer) <= BATCH_SIZE
            /\ Len(loc[r].batch_buffer) = BATCH_SIZE => InFlush(r)
            /\ pc[r] = "root_done" =>
                  /\ loc[r].batch_buffer = << >>
                  /\ loc[r].todo = << >> \/ loc[r].mode = "mft"
                  /\ loc[r].mode = "walk" =>
                        /\ loc[r].persisted = loc[r].flushed
                        /\ loc[r].persisted <= EmittedSoFar(r)
                        /\ faults = 0 => loc[r].persisted = EmittedSoFar(r))
    /\ [][\A r \in Runs :
            /\ (pc'[r] = "root_done" /\ pc[r] # "root_done") =>
                  /\ pc[r] \in {"flush", "flush_ret"}
                  /\ loc'[r].flush.result = loc'[r].flushed - loc[r].flushed
            /\ (InFlush(r) /\ ~InFlush(r)') =>
                  /\ loc'[r].batch_buffer = << >>
                  /\ loc'[r].flushed = loc[r].flushed + loc'[r].flush.result
                  /\ loc'[r].todo = loc[r].todo]_vars

\* C36 witness: with no write failing, a walk of four entries, three of them
\* giving a record, has returned Ok(3) after two flushes that wrote
\* something: the one of the full buffer and the final one
C36_Witness ==
    \E r \in Runs :
        /\ pc[r] = "root_done" /\ loc[r].mode = "walk"
        /\ faults = 0
        /\ loc[r].flush.calls = 2
        /\ loc[r].persisted = 3
        /\ loc[r].flush.result = 1

\* C36 witness with failed writes: the walk has returned less than it pushed
C36_WitnessFailedWrite ==
    \E r \in Runs :
        /\ pc[r] = "root_done" /\ loc[r].mode = "walk"
        /\ loc[r].persisted < loc[r].processed

\* the positions at which a thread holds the guard of the store: inside
\* flush_batch, from the lock to the return; in the startup thread, the
\* count it reads to decide whether to index; in search_files, the query;
\* in get_indexing_status, the reads
Holding(p) ==
    IF p = "search" THEN {"search_query"}
    ELSE IF p = "status" THEN {"status_read"}
    ELSE IF p = "auto" THEN {"auto_count", "flush_bulk", "flush_rows", "flush_ret"}
    ELSE {"flush_bulk", "flush_rows", "flush_ret"}

\* C37: no deadlock on the store lock.  A thread holds the lock exactly
\* while it is inside a flush, a search or a query of the store's status
\* (get_indexing_status, and the count the startup thread reads before it
\* indexes), between the lock and the end of that operation, so the lock is
\* released before the operation returns; the lock is taken only when it is
\* free, by a thread that holds nothing; a step that invokes the progress
\* callback or emits an event is a step of a run that does not hold the
\* lock, before or after; and, with a fair lock and threads that keep
\* running, every search and every status request that is waiting for the
\* lock, whatever the indexing runs do, is eventually served.
C37_NoDeadlock ==
    /\ [](/\ lock \in Procs \cup {Free}
          /\ \A p \in Procs : lock = p <=> pc[p] \in Holding(p))
    /\ [][/\ \A p \in Procs :
                (lock' = p /\ lock # p) => (lock = Free /\ pc[p] \notin Holding(p))
          /\ \A r \in Runs :
                events'[r] # events[r] => (lock # r /\ lock' # r)]_vars
    /\ (pc["search"] = "search_lock") ~> (pc["search"] = "search_done")
    /\ (pc["status"] = "status_lock") ~> (pc["status"] = "idle")

\* C37 witness: a search that found the lock held by a flush of the reindex
\* run, while the auto-index was waiting to flush, has been answered on what
\* that flush committed, before the runs are over
C37_Witness ==
    /\ pc["search"] = "search_done"
    /\ ret.pre # EmptyDb
    /\ pc["auto"] = "flush"
    /\ pc["reindex"] \in {"mft_scan", "flush", "root_done", "next_root"}
    /\ loc["reindex"].flush.calls >= 1

(***************************************************************************)
(* Properties of the MFT scan (ScanSpec).                                  *)
(***************************************************************************)
\* the record the scan read last: its fields, its bytes on the volume, what
\* apply_fixups made of them and what the iteration came to
Cur == scan.cur[1]

\* C25: fixup validation.  For the record read last, with usa_offset and
\* usa_count as its bytes 4..7 hold them and the sectors i = 1 ..
\* usa_count - 1 (the array holds the USN and then one word per sector): if
\* the update sequence array does not fit in the record, or a position
\* i * bytes_per_sector - 2 falls outside the record, or the two bytes there
\* differ from the USN, then apply_fixups returns false, the record is
\* skipped and the scan goes on; otherwise apply_fixups returns true, each
\* such position holds the word of the array for its sector, and every other
\* byte of the record is as it was read.
C25_FixupValidation ==
    (scan.cur # << >> /\ Cur.fix.kind # "none") =>
        LET buffer == Cur.buffer
            usa_offset == LE(Slice(buffer, 4, 2))
            usa_count == LE(Slice(buffer, 6, 2))
            fits == usa_offset + 2 * usa_count <= Len(buffer)
            P(i) == i * scan.bytes_per_sector - 2
            inside(i) == P(i) >= 0 /\ P(i) + 2 <= Len(buffer)
            bad == \/ ~fits
                   \/ \E i \in 1 .. (usa_count - 1) :
                         \/ ~inside(i)
                         \/ Slice(buffer, P(i), 2) # Slice(buffer, usa_offset, 2)
        IN  IF bad
            THEN /\ Cur.fix.kind = "false"
                 /\ Cur.out.kind = "skip"
                 /\ scan.pc \in {"scan", "returned_ok"}
            ELSE /\ Cur.fix.kind = "true"
                 /\ Len(Cur.fix.buffer) = Len(buffer)
                 /\ \A k \in 0 .. (Len(buffer) - 1) :
                       Cur.fix.buffer[k + 1] =
                           IF \E i \in 1 .. (usa_count - 1) : k \in {P(i), P(i) + 1}
                           THEN LET i == CHOOSE j \in 1 .. (usa_count - 1) :
                                             k \in {P(j), P(j) + 1}
                                IN  buffer[usa_offset + 2 * i + (k - P(i)) + 1]
                           ELSE buffer[k + 1]

\* a field of the record points outside the record: the first attribute
\* offset, the attribute length, the content offset, the name length
Corrupt(rec) ==
    LET a == rec.first_attr_offset
    IN  \/ a + 8 > MFT_RECORD_SIZE
        \/ a + rec.attr_len > MFT_RECORD_SIZE
        \/ a + rec.content_offset + 66 > MFT_RECORD_SIZE
        \/ a + rec.content_offset + 66 + 2 * rec.name_len > MFT_RECORD_SIZE

\* C26: record-level corruption is a skip, not a failure.  When the record
\* read last has the magic and passed the fixups, and one of its fields
\* points outside the record, the record is skipped (nothing is emitted for
\* it) and index_drive has not returned an error: it scans on or returns Ok.
C26_CorruptRecordSkipped ==
    (scan.cur # << >> /\ Cur.rec.magic /\ Cur.fix.kind = "true" /\ Corrupt(Cur.rec)) =>
        /\ Cur.out.kind = "skip"
        /\ scan.pc \in {"scan", "returned_ok"}

\* C27: FILENAME decoding.  A record emitted from a resident FILENAME
\* attribute whose content holds the directory flag in the u32 at +48, the
\* size in the u64 at +56 and name_length code units at +66 carries exactly
\* that name, that flag and that size.
C27_FilenameDecoding ==
    (scan.cur # << >> /\ Cur.out.kind = "emit"
        /\ Cur.rec.name_len = Len(Cur.rec.units)
        /\ IsSome(from_utf16(Cur.rec.units))) =>
        LET file == Unwrap(Cur.out.file)
        IN  /\ file.name = Unwrap(from_utf16(Cur.rec.units))
            /\ file.is_dir = Cur.rec.is_dir
            /\ file.file_size = Some(AsI64(Cur.rec.size))

\* the record yields a non-empty decoded name: it has a resident FILENAME
\* attribute inside the attribute area, and the name_length code units at
\* content + 66 lie in the record and are a non-empty UTF-16 string
Yields(rec) ==
    /\ rec.first_attr_offset < MFT_RECORD_SIZE - 8
    /\ rec.attr_type = ATTR_FILENAME /\ rec.attr_len # 0 /\ rec.non_resident = 0
    /\ rec.first_attr_offset + rec.content_offset + 66 + 2 * rec.name_len
           <= MFT_RECORD_SIZE
    /\ rec.name_len = Len(rec.units)
    /\ rec.units # << >>
    /\ IsSome(from_utf16(rec.units))

\* C28: MFT emission.  The scanner emits a FileRecord for the record read
\* last if and only if the record starts with FILE, apply_fixups returned
\* true for it, its in-use flag is set and it yields a non-empty decoded
\* name; files_found counts the records emitted; and the scan of the volume
\* with two valid records and one record with a wrong USN does not fail and
\* returns with exactly two FileRecords emitted, a count of two and their two
\* paths in the store.
C28_MftEmission ==
    /\ scan.cur # << >> =>
          (Cur.out.kind = "emit" <=>
              /\ Cur.rec.magic
              /\ Cur.fix.kind = "true"
              /\ Cur.rec.in_use
              /\ Yields(Cur.rec))
    /\ scan.files_found = Len(scan.emitted)
    /\ scan.image = ImageWrongUsn =>
          /\ scan.pc \in {"scan", "returned_ok"}
          /\ scan.pc = "returned_ok" =>
                /\ scan.files_found = 2
                /\ Len(scan.emitted) = 2
                /\ PathsOf(db) = {scan.emitted[k].path : k \in 1 .. 2}
                /\ Cardinality(PathsOf(db)) = 2

\* C28 witness: the scan of the volume with two valid records and one with a
\* wrong USN has returned; the record with the wrong USN was read and skipped
C28_Witness ==
    /\ scan.image = ImageWrongUsn
    /\ scan.pc = "returned_ok"
    /\ scan.i = 3
    /\ scan.files_found = 2

\* C29: MFT extension.  Every record the scanner has emitted that is not a
\* directory and whose name contains a '.' has as extension the part of the
\* name from its last '.' on (one leading dot); the extension is None when
\* the name has no '.' and for directories.
C29_MftExtension ==
    \A k \in 1 .. Len(scan.emitted) :
        LET f == scan.emitted[k]
            dots == {i \in 1 .. Len(f.name) : f.name[i] = 46}
        IN  f.extension =
                IF ~f.is_dir /\ dots # {}
                THEN LET last == CHOOSE i \in dots : \A j \in dots : j <= i
                     IN  Some(SubSeq(f.name, last, Len(f.name)))
                ELSE None

\* C34: MFT scan exit.  The scan never reads more than max_scan records;
\* it returns Ok only when the read of the next record failed (the records
\* of the volume are all read) or max_scan records were read; and when
\* index_drive has returned, the batch is empty and every record the scanner
\* emitted has been handed to the store (no write fails here, so its path is
\* in the store).
C34_ScanExit ==
    /\ scan.i <= max_scan
    /\ scan.i = Len(scan.image) - Len(scan.todo)
    /\ scan.pc = "returned_ok" => (scan.todo = << >> \/ scan.i = max_scan)
    /\ scan.pc \in {"returned_ok", "returned_err"} =>
          /\ scan.batch_buffer = << >>
          /\ \A k \in 1 .. Len(scan.emitted) : scan.emitted[k].path \in PathsOf(db)

(***************************************************************************)
(* Properties of the SectorReader (ReaderSpec).                            *)
(***************************************************************************)
\* C30: sector reader equivalence.  Every read returns; the bytes it
\* delivers are the bytes of the source at the position it was made from (a
\* prefix of what a read of the same size on the source itself delivers, and
\* empty only if that read is empty), and the position advances by their
\* number; the reads since the last seek to start have together delivered
\* the source slice [start .. start + total_read]; a seek changes only the
\* logical position.
C30_ReaderEquivalence ==
    /\ sr.state # "hung"
    /\ sr.last.op = "read" =>
          LET pre == sr.last.pre
              direct == Unbuffered(pre.inner, pre.pos, sr.last.n)
          IN  /\ Len(sr.last.bytes) <= Len(direct)
              /\ sr.last.bytes = SubSeq(direct, 1, Len(sr.last.bytes))
              /\ (sr.last.bytes = << >>) <=> (direct = << >>)
              /\ sr.reader.pos = pre.pos + Len(sr.last.bytes)
              /\ sr.reader.inner = pre.inner
    /\ sr.state = "open" =>
          /\ sr.start + Len(sr.total) <= Len(sr.reader.inner) \/ sr.total = << >>
          /\ sr.total # << >> =>
                sr.total = Slice(sr.reader.inner, sr.start, Len(sr.total))
    /\ sr.last.op = "seek" =>
          /\ sr.reader.inner = sr.last.pre.inner
          /\ sr.reader.sector_size = sr.last.pre.sector_size
          /\ sr.reader.buffer = sr.last.pre.buffer
          /\ sr.reader.buffer_offset = sr.last.pre.buffer_offset
          /\ sr.reader.buffer_valid = sr.last.pre.buffer_valid

\* C31: end of data ends the scan.  A read of one or more bytes made with
\* the logical position at or past the end of the source returns, and
\* returns 0 bytes; a read_exact made there returns Err, which is what ends
\* the scan loop.  This for every source length and sector size of the
\* model, among them lengths that are not a multiple of the sector size.
C31_EndOfData ==
    (sr.last.op # "none" /\ sr.last.op # "seek" /\ sr.last.n > 0
        /\ sr.last.pre.pos >= Len(sr.last.pre.inner)) =>
        /\ sr.state = "open"
        /\ sr.last.bytes = << >>
        /\ sr.last.op \in {"read", "read_exact_eof"}

(***************************************************************************)
(* Properties of the attribute loop (WalkSpec).                            *)
(***************************************************************************)
\* the attribute ends the walk: its type is 0xFFFFFFFF or its length is 0
IsTerminator(a) == a.attr_type = END_OF_ATTRIBUTES \/ a.attr_len = 0

\* the index of the first attribute of the list that ends the walk (Len + 1,
\* the end marker after the list, when none does)
FirstTerminator(attrs) ==
    LET ks == {k \in 1 .. Len(attrs) : IsTerminator(attrs[k])}
    IN  IF ks = {} THEN Len(attrs) + 1
        ELSE CHOOSE k \in ks : \A j \in ks : k <= j

\* the loop is over
WalkOver == walk.state \in {"done", "err", "emit", "skip"}

\* C32: attribute walk termination.  For every record of the model the
\* attribute loop comes to an end, each iteration that goes on leaves the
\* cursor further in the record, the header of no attribute located after
\* the first attribute with type 0xFFFFFFFF or length 0 is read, neither
\* that attribute nor one after it is decoded, and the loop is over once
\* that attribute has been read.
C32_WalkTerminates ==
    /\ <>WalkOver
    /\ [][(walk.state = "walking" /\ walk'.state = "walking") =>
              walk'.pos > walk.pos]_vars
    /\ [](walk.state # "off" =>
            LET stop == AttrPos(walk.attrs, FirstTerminator(walk.attrs))
            IN  /\ \A p \in walk.read : p <= stop
                /\ \A p \in walk.decoded : p < stop
                /\ stop \in walk.read =>
                      /\ walk.state \in {"done", "emit", "skip"}
                      /\ walk.pos = stop)

\* C32 witness: the loop is over at an attribute of length 0 that is
\* followed by a resident FILENAME attribute with a name; no name was decoded
C32_Witness ==
    /\ walk.state = "skip"
    /\ LET k == FirstTerminator(walk.attrs)
       IN  /\ k < Len(walk.attrs)
           /\ walk.attrs[k].attr_len = 0
           /\ walk.attrs[k + 1] = FileName(NameLower, FALSE)
           /\ AttrPos(walk.attrs, k) \in walk.read
    /\ walk.d.filename = None
    /\ walk.decoded = {}

\* the attribute has a name that decodes: it is resident, its content is in
\* the record and its code units are valid UTF-16
Decodable(a) ==
    /\ a.non_resident = 0
    /\ a.content_offset = 24
    /\ IsSome(from_utf16(a.units))

\* C33: only the first FILENAME attribute is considered.  When the loop is
\* over without error, with k the first attribute of type 0x30 the walk
\* meets: no attribute but k has been decoded; if k is resident and its name
\* decodes, the filename and the directory flag are those of k; if k is
\* non-resident or its name does not decode, the record has no filename.
\* (The size is read from the same attribute as the flag; which bytes of it,
\* is the subject of C27.)
C33_FirstFilenameOnly ==
    walk.state \in {"done", "emit", "skip"} =>
        LET met == {k \in 1 .. Len(walk.attrs) :
                       /\ k < FirstTerminator(walk.attrs)
                       /\ \A j \in 1 .. (k - 1) : walk.attrs[j].attr_len = walk.attrs[j].room}
            names == {k \in met : walk.attrs[k].attr_type = FileNameType}
        IN  IF names = {} THEN walk.d.filename = None /\ walk.decoded = {}
            ELSE LET k == CHOOSE i \in names : \A j \in names : i <= j
                     a == walk.attrs[k]
                 IN  /\ walk.decoded \subseteq {AttrPos(walk.attrs, k)}
                     /\ IF Decodable(a)
                        THEN /\ walk.d.filename = from_utf16(a.units)
                             /\ walk.d.is_dir = a.is_dir
                        ELSE walk.d.filename = None

(***************************************************************************)
(* Properties of the store (Spec).                                         *)
(***************************************************************************)
RowsOfPath(d, path) == {r \in d.rows : r.path = path}

\* C1: after any sequence of upsert, upsert_batch and delete the store holds
\* at most one row per path, and a successful upsert of a record leaves
\* exactly one row for its path, carrying the fields of that record.
C1_OneRowPerPath ==
    /\ \A r1, r2 \in db.rows : r1.path = r2.path => r1 = r2
    /\ (ret.op = "upsert_file" /\ ret.ok) =>
            LET f == ret.files[1]
            IN  /\ Cardinality(RowsOfPath(db, f.path)) = 1
                /\ \A r \in RowsOfPath(db, f.path) : RecordOf(r) = f

\* C1 witness: an upsert replaced a row of the same path that had another size
C1_Witness ==
    /\ ret.op = "upsert_file" /\ ret.ok
    /\ \E r \in ret.pre.rows :
          /\ r.path = ret.files[1].path
          /\ r.file_size # ret.files[1].file_size
    /\ \E r \in db.rows : r.path # ret.files[1].path

\* row k of the batch is the last row of the batch with its path
LastOfPath(files, k) ==
    \A j \in (k + 1) .. Len(files) : files[j].path # files[k].path

\* C2: upsert_batch is all-or-nothing.  It returns an error exactly when a
\* write of the batch fails, and then the database is what it was before the
\* call; when it returns Ok every record of the batch has been written: the
\* store holds it, unless a later record of the same batch has the same
\* path and replaced it.
C2_BatchAllOrNothing ==
    ret.op = "upsert_batch" =>
        /\ ret.ok <=> ret.failAt = 0
        /\ ~ret.ok => db = ret.pre
        /\ ret.ok =>
              \A k \in 1 .. Len(ret.files) :
                  LastOfPath(ret.files, k) =>
                      \E r \in db.rows : RecordOf(r) = ret.files[k]

\* C2 witness: the second row of a batch failed after the first row had
\* replaced, inside the transaction, a row the store held before the call
C2_Witness ==
    /\ ret.op = "upsert_batch" /\ ~ret.ok
    /\ Len(ret.files) = 2 /\ ret.failAt = 2
    /\ \E r \in ret.pre.rows :
          r.path = ret.files[1].path /\ RecordOf(r) # ret.files[1]
    /\ db.rows = ret.pre.rows

(***************************************************************************)
(* Properties of search (Spec).                                            *)
(***************************************************************************)
Searched == ret.op = "search_files" /\ ret.out.query # << >>

\* the rows of d that the search contract asks for: the name contains the
\* query as a literal substring and the row passes the filters the store
\* was given
Wanted(d, query, filters) ==
    {r \in d.rows :
        /\ Contains(r.name, query)
        /\ ExtensionMatches(r, filters.extensions)
        /\ SizeMatches(r, StoreMinSize(filters), StoreMaxSize(filters))}

\* C7: search completeness.  For a non-empty query, every row whose name
\* contains the query as a substring and which satisfies the filters is in
\* the result when the limit is at least the number of such rows.
C7_SearchComplete ==
    Searched =>
        LET wanted == Wanted(ret.pre, ret.out.query, ret.filters)
        IN  ret.out.limit >= Cardinality(wanted) =>
                \A r \in wanted :
                    \E i \in 1 .. Len(ret.out.results) :
                        ret.out.results[i].path = r.path

\* C8: search soundness.  Every returned row has a name that contains the
\* query as a case-sensitive literal substring.
C8_SearchSound ==
    Searched =>
        \A i \in 1 .. Len(ret.out.results) :
            Contains(ret.out.results[i].name, ret.out.query)

\* C9: search ordering.  No non-directory precedes a directory, and among
\* results of the same is_dir the names are in non-decreasing byte order.
C9_SearchOrdered ==
    Searched =>
        \A i, j \in 1 .. Len(ret.out.results) :
            i < j =>
                LET a == ret.out.results[i]
                    b == ret.out.results[j]
                IN  /\ ~(~a.is_dir /\ b.is_dir)
                    /\ a.is_dir = b.is_dir => StrLE(a.name, b.name)

\* C9 witness: a directory is returned ahead of a file whose name sorts
\* before the directory's, and two files follow in ascending name order
C9_Witness ==
    /\ Searched
    /\ Len(ret.out.results) = 3
    /\ ret.out.results[1].is_dir
    /\ ~ret.out.results[2].is_dir /\ ~ret.out.results[3].is_dir
    /\ ret.out.results[2].name # ret.out.results[1].name
    /\ StrLE(ret.out.results[2].name, ret.out.results[1].name)
    /\ ret.out.results[2].name # ret.out.results[3].name

\* C10: for every limit of the unsigned word type the search returns at
\* most limit results, and total is the number of results returned.
C10_LimitRespected ==
    ret.op = "search_files" =>
        /\ Len(ret.out.results) <= ret.out.limit
        /\ ret.out.total = Len(ret.out.results)

\* C10 witness: more rows match than the limit admits, and the result is
\* cut to the limit
C10_Witness ==
    /\ Searched
    /\ ret.out.limit >= 1
    /\ Len(ret.out.results) = ret.out.limit
    /\ Cardinality({r \in ret.pre.rows : NameMatches(r, ret.out.query)})
           > ret.out.limit
    /\ ret.filters = SearchFilters(None, None, None, None, None)

\* the extension filter of the request restricts the result
ExtensionFilterSet(filters) ==
    IsSome(filters.extensions) /\ Unwrap(filters.extensions) # << >>

\* the limit of the returned call does not cut the result
Uncut == AsI64(ret.out.limit) < 0 \/ Len(ret.out.results) < ret.out.limit

\* C11: extension filter.  With a non-empty extension list every returned
\* row has a non-null extension that is a member of the list; with no list
\* or an empty one the extension restricts nothing: every row that matches
\* the name and the size filters is returned, whatever its extension, unless
\* the limit cuts the result.
C11_ExtensionFilter ==
    Searched =>
        IF ExtensionFilterSet(ret.filters)
        THEN \A i \in 1 .. Len(ret.out.results) :
                 /\ IsSome(ret.out.results[i].extension)
                 /\ \E k \in 1 .. Len(Unwrap(ret.filters.extensions)) :
                        Unwrap(ret.filters.extensions)[k]
                            = Unwrap(ret.out.results[i].extension)
        ELSE Uncut =>
                 \A r \in ret.pre.rows :
                     (/\ NameMatches(r, ret.out.query)
                      /\ SizeMatches(r, StoreMinSize(ret.filters),
                                      StoreMaxSize(ret.filters)))
                     => \E i \in 1 .. Len(ret.out.results) :
                            ret.out.results[i].path = r.path

\* C11 witness: with the list [".t"] a matching row without extension is
\* left out and a row with the extension ".t" is returned
C11_Witness ==
    /\ Searched
    /\ ret.filters = SearchFilters(Some(<< ExtT >>), None, None, None, None)
    /\ \E r \in ret.pre.rows :
          NameMatches(r, ret.out.query) /\ r.extension = None
    /\ Len(ret.out.results) = 1
    /\ ret.out.results[1].extension = Some(ExtT)

\* C11 second witness state: with an empty list rows with and without an
\* extension are both returned
C11_WitnessEmptyList ==
    /\ Searched
    /\ ret.filters.extensions = Some(<< >>)
    /\ \E i, j \in 1 .. Len(ret.out.results) :
          /\ ret.out.results[i].extension = None
          /\ ret.out.results[j].extension = Some(ExtT)

\* C12: size filters.  With min_size set every returned row has a non-null
\* file_size >= min_size, with max_size set a non-null file_size <=
\* max_size, for every value of the unsigned word type of the filters.
C12_SizeFilters ==
    Searched =>
        \A i \in 1 .. Len(ret.out.results) :
            LET size == ret.out.results[i].file_size
            IN  /\ IsSome(ret.filters.min_size) =>
                       (IsSome(size) /\ Unwrap(size) >= Unwrap(ret.filters.min_size))
                /\ IsSome(ret.filters.max_size) =>
                       (IsSome(size) /\ Unwrap(size) <= Unwrap(ret.filters.max_size))

\* C14: date filters do not influence the result.  The result of a search
\* is the result of the same request on the same store with any other
\* min_date / max_date.
C14_DatesIgnored ==
    Searched =>
        \A t \in DateFilters :
            search_files(ret.pre, ret.out.query,
                         [ret.filters EXCEPT !.min_date = t[1], !.max_date = t[2]],
                         ret.out.page, ret.out.limit) = ret.out

\* C14 witness: a request with min_date and max_date set returned a row
\* whose modified_time lies outside them
C14_Witness ==
    /\ Searched
    /\ IsSome(ret.filters.min_date) /\ IsSome(ret.filters.max_date)
    /\ \E i \in 1 .. Len(ret.out.results) :
          ret.out.results[i].modified_time > Unwrap(ret.filters.max_date)

\* C15: round trip.  A record the store holds, searched without filters by
\* a non-empty substring of its name and with a limit that does not cut the
\* result, is returned with path, name, extension, file_size, is_dir and
\* modified_time equal to the inserted values.
C15_RoundTrip ==
    (Searched /\ Uncut
        /\ ret.filters = SearchFilters(None, None, None, None, None)) =>
        \A r \in ret.pre.rows :
            Contains(r.name, ret.out.query) =>
                \E i \in 1 .. Len(ret.out.results) :
                    LET o == ret.out.results[i]
                    IN  /\ o.path = r.path /\ o.name = r.name
                        /\ o.extension = r.extension
                        /\ o.file_size = r.file_size
                        /\ o.is_dir = r.is_dir
                        /\ o.modified_time = r.modified_time

====
